---------------------------- MODULE Spec2Model ----------------------------
(***************************************************************************)
(* EchoSense backend: the rule-based sentiment service                     *)
(* (echosense-backend/services/sentimentAnalysis.js).                      *)
(*                                                                         *)
(* Strings are sequences of one-character strings, so that toLowerCase,    *)
(* the two regular-expression replacements, trim, split(' ') and           *)
(* String.prototype.includes are computed character by character.          *)
(* Numbers are exact rationals [n, d] in lowest terms with d > 0; the      *)
(* decimal literals of the source (0.8, 0.2, 0.1, ...) are the rationals   *)
(* they denote, and toFixed(3) rounds to the nearest thousandth.           *)
(* A JavaScript value is a record [type, chars, items, num]: chars is the  *)
(* content of a string, items the members of an array, num a number.       *)
(***************************************************************************)
EXTENDS Integers, Sequences, FiniteSets, TLC

(***************************************************************************)
(* Bounds of the explored inputs.                                          *)
(***************************************************************************)
MaxPos == 3        \* occurrences of a positive keyword in a generated text
MaxNeg == 3        \* occurrences of a negative keyword
MaxNeu == 1        \* occurrences of a neutral keyword
MaxNegations == 2  \* occurrences of the negation word "not"
MaxExcl == 2       \* trailing exclamation marks
MaxTexts == 3      \* length of the array given to analyzeBatch
MaxEnvBatch == 2   \* largest BATCH_SIZE setting tried besides the default
MaxIter == 4       \* loop iterations of analyzeBatch that are followed
MaxWords == 3      \* words of a text given to extractKeywords
MaxKeep == 2       \* largest number of keywords asked of extractKeywords
MaxCalls == 2      \* returned calls that the history keeps
MaxRecords == 3    \* stored sentiment records after which no new cycle starts
MaxFaults == 2     \* API and database calls that fail in a behaviour

(***************************************************************************)
(* Rational arithmetic.                                                    *)
(***************************************************************************)
RECURSIVE GCD(_, _)
GCD(a, b) == IF b = 0 THEN a ELSE GCD(b, a % b)

Abs(x) == IF x < 0 THEN -x ELSE x

Q(n, d) ==
  LET g == GCD(Abs(n), d)
  IN  [n |-> n \div g, d |-> d \div g]

QAdd(a, b) == Q(a.n * b.d + b.n * a.d, a.d * b.d)
QSub(a, b) == Q(a.n * b.d - b.n * a.d, a.d * b.d)
QMul(a, b) == Q(a.n * b.n, a.d * b.d)
QDivInt(a, k) == Q(a.n, a.d * k)
QLt(a, b) == a.n * b.d < b.n * a.d
QLe(a, b) == a.n * b.d <= b.n * a.d
QMin(a, b) == IF QLe(a, b) THEN a ELSE b
QMax(a, b) == IF QLe(a, b) THEN b ELSE a

Zero == Q(0, 1)
One == Q(1, 1)
Half == Q(1, 2)

\* parseFloat(x.toFixed(3)) for x >= 0: the nearest multiple of 1/1000
toFixed3(x) == Q((2000 * x.n + x.d) \div (2 * x.d), 1000)

(***************************************************************************)
(* Characters and strings.                                                 *)
(***************************************************************************)
LowerCase ==
  {"a","b","c","d","e","f","g","h","i","j","k","l","m",
   "n","o","p","q","r","s","t","u","v","w","x","y","z"}

UpperToLower ==
  [c \in {"A","B","C","D","E","F","G","H","I","J","K","L","M",
          "N","O","P","Q","R","S","T","U","V","W","X","Y","Z"} |->
     CASE c = "A" -> "a" [] c = "B" -> "b" [] c = "C" -> "c" [] c = "D" -> "d"
       [] c = "E" -> "e" [] c = "F" -> "f" [] c = "G" -> "g" [] c = "H" -> "h"
       [] c = "I" -> "i" [] c = "J" -> "j" [] c = "K" -> "k" [] c = "L" -> "l"
       [] c = "M" -> "m" [] c = "N" -> "n" [] c = "O" -> "o" [] c = "P" -> "p"
       [] c = "Q" -> "q" [] c = "R" -> "r" [] c = "S" -> "s" [] c = "T" -> "t"
       [] c = "U" -> "u" [] c = "V" -> "v" [] c = "W" -> "w" [] c = "X" -> "x"
       [] c = "Y" -> "y" [] c = "Z" -> "z"]

Digits == {"0","1","2","3","4","5","6","7","8","9"}

\* the class \w of the regular expression /[^\w\s]/g
WordChars == LowerCase \cup DOMAIN UpperToLower \cup Digits \cup {"_"}

\* the class \s, as far as it occurs in the explored texts
SpaceChars == {" ", "\t", "\n"}

toLowerCase(s) ==
  [i \in 1..Len(s) |-> IF s[i] \in DOMAIN UpperToLower THEN UpperToLower[s[i]] ELSE s[i]]

\* s.replace(/[^\w\s]/g, ' ')
replacePunctuation(s) ==
  [i \in 1..Len(s) |-> IF s[i] \in WordChars \cup SpaceChars THEN s[i] ELSE " "]

\* s.replace(/\s+/g, ' ')
RECURSIVE collapseFrom(_, _, _)
collapseFrom(s, i, acc) ==
  IF i > Len(s) THEN acc
  ELSE IF s[i] \notin SpaceChars THEN collapseFrom(s, i + 1, Append(acc, s[i]))
  ELSE IF i > 1 /\ s[i-1] \in SpaceChars THEN collapseFrom(s, i + 1, acc)
  ELSE collapseFrom(s, i + 1, Append(acc, " "))

normalizeWhitespace(s) == collapseFrom(s, 1, <<>>)

\* s.trim()
trim(s) ==
  LET inked == {i \in 1..Len(s) : s[i] \notin SpaceChars}
  IN  IF inked = {} THEN <<>>
      ELSE LET lo == CHOOSE i \in inked : \A j \in inked : i <= j
               hi == CHOOSE i \in inked : \A j \in inked : j <= i
           IN  SubSeq(s, lo, hi)

\* s.split(' '): the pieces between single spaces, empty pieces included
RECURSIVE splitFrom(_, _, _, _)
splitFrom(s, i, done, piece) ==
  IF i > Len(s) THEN Append(done, piece)
  ELSE IF s[i] = " " THEN splitFrom(s, i + 1, Append(done, piece), <<>>)
  ELSE splitFrom(s, i + 1, done, Append(piece, s[i]))

split(s) == splitFrom(s, 1, <<>>, <<>>)

\* s.includes(w): w occurs in s as a substring
includes(s, w) ==
  \/ w = <<>>
  \/ \E i \in 1..(Len(s) - Len(w) + 1) :
        /\ s[i] = w[1]
        /\ SubSeq(s, i, i + Len(w) - 1) = w

\* (s.match(/!/g) || []).length
countChar(s, c) == Cardinality({i \in 1..Len(s) : s[i] = c})

(***************************************************************************)
(* JavaScript values.                                                      *)
(***************************************************************************)
Str(s) == [type |-> "string", chars |-> s, items |-> <<>>, num |-> 0]
Null == [type |-> "null", chars |-> <<>>, items |-> <<>>, num |-> 0]
Undefined == [type |-> "undefined", chars |-> <<>>, items |-> <<>>, num |-> 0]
NumV(k) == [type |-> "number", chars |-> <<>>, items |-> <<>>, num |-> k]
Arr(xs) == [type |-> "array", chars |-> <<>>, items |-> xs, num |-> 0]
Bool(b) == [type |-> "boolean", chars |-> <<>>, items |-> <<>>, num |-> IF b THEN 1 ELSE 0]

\* ToBoolean(v): what `v || null` and `if (!v)` test
truthy(v) ==
  CASE v.type = "number" -> v.num # 0
    [] v.type = "boolean" -> v.num = 1
    [] v.type = "string" -> v.chars # <<>>
    [] v.type \in {"null", "undefined"} -> FALSE
    [] OTHER -> TRUE

(***************************************************************************)
(* The lexicons set by initialize().                                       *)
(***************************************************************************)
\* positiveKeywords with the word "good" added
positiveKeywordsWithGood ==
  {
    <<"e","x","c","e","l","l","e","n","t">>,
    <<"a","m","a","z","i","n","g">>,
    <<"g","r","e","a","t">>,
    <<"f","a","n","t","a","s","t","i","c">>,
    <<"w","o","n","d","e","r","f","u","l">>,
    <<"a","w","e","s","o","m","e">>,
    <<"l","o","v","e">>,
    <<"p","e","r","f","e","c","t">>,
    <<"o","u","t","s","t","a","n","d","i","n","g">>,
    <<"b","r","i","l","l","i","a","n","t">>,
    <<"s","u","p","e","r","b">>,
    <<"m","a","g","n","i","f","i","c","e","n","t">>,
    <<"i","n","c","r","e","d","i","b","l","e">>,
    <<"r","e","m","a","r","k","a","b","l","e">>,
    <<"i","n","n","o","v","a","t","i","o","n">>,
    <<"r","e","v","o","l","u","t","i","o","n","a","r","y">>,
    <<"b","r","e","a","k","t","h","r","o","u","g","h">>,
    <<"c","u","t","t","i","n","g","-","e","d","g","e">>,
    <<"a","d","v","a","n","c","e","d">>,
    <<"e","f","f","i","c","i","e","n","t">>,
    <<"s","u","s","t","a","i","n","a","b","l","e">>,
    <<"e","c","o","-","f","r","i","e","n","d","l","y">>,
    <<"g","r","e","e","n">>,
    <<"c","l","e","a","n">>,
    <<"r","e","n","e","w","a","b","l","e">>,
    <<"f","u","t","u","r","e">>,
   <<"g","o","o","d">>}

\* this.positiveKeywords of lines 13-18
positiveKeywords ==
  {
    <<"e","x","c","e","l","l","e","n","t">>,
    <<"a","m","a","z","i","n","g">>,
    <<"g","r","e","a","t">>,
    <<"f","a","n","t","a","s","t","i","c">>,
    <<"w","o","n","d","e","r","f","u","l">>,
    <<"a","w","e","s","o","m","e">>,
    <<"l","o","v","e">>,
    <<"p","e","r","f","e","c","t">>,
    <<"o","u","t","s","t","a","n","d","i","n","g">>,
    <<"b","r","i","l","l","i","a","n","t">>,
    <<"s","u","p","e","r","b">>,
    <<"m","a","g","n","i","f","i","c","e","n","t">>,
    <<"i","n","c","r","e","d","i","b","l","e">>,
    <<"r","e","m","a","r","k","a","b","l","e">>,
    <<"i","n","n","o","v","a","t","i","o","n">>,
    <<"r","e","v","o","l","u","t","i","o","n","a","r","y">>,
    <<"b","r","e","a","k","t","h","r","o","u","g","h">>,
    <<"c","u","t","t","i","n","g","-","e","d","g","e">>,
    <<"a","d","v","a","n","c","e","d">>,
    <<"e","f","f","i","c","i","e","n","t">>,
    <<"s","u","s","t","a","i","n","a","b","l","e">>,
    <<"e","c","o","-","f","r","i","e","n","d","l","y">>,
    <<"g","r","e","e","n">>,
    <<"c","l","e","a","n">>,
    <<"r","e","n","e","w","a","b","l","e">>,
    <<"f","u","t","u","r","e">>
  }

negativeKeywords ==
  {
    <<"t","e","r","r","i","b","l","e">>,
    <<"a","w","f","u","l">>,
    <<"h","o","r","r","i","b","l","e">>,
    <<"b","a","d">>,
    <<"w","o","r","s","t">>,
    <<"h","a","t","e">>,
    <<"d","i","s","g","u","s","t","i","n","g">>,
    <<"p","a","t","h","e","t","i","c">>,
    <<"d","i","s","a","p","p","o","i","n","t","i","n","g">>,
    <<"f","r","u","s","t","r","a","t","i","n","g">>,
    <<"a","n","n","o","y","i","n","g">>,
    <<"u","s","e","l","e","s","s">>,
    <<"b","r","o","k","e","n">>,
    <<"f","a","i","l","e","d">>,
    <<"e","x","p","e","n","s","i","v","e">>,
    <<"o","v","e","r","p","r","i","c","e","d">>,
    <<"c","o","s","t","l","y">>,
    <<"w","a","s","t","e">>,
    <<"s","c","a","m">>,
    <<"f","r","a","u","d">>,
    <<"p","r","o","b","l","e","m">>,
    <<"i","s","s","u","e">>,
    <<"b","u","g">>,
    <<"e","r","r","o","r">>,
    <<"c","r","a","s","h">>,
    <<"s","l","o","w">>,
    <<"d","e","l","a","y","e","d">>,
    <<"c","a","n","c","e","l","l","e","d">>
  }

neutralKeywords ==
  {
    <<"o","k","a","y">>,
    <<"f","i","n","e">>,
    <<"a","v","e","r","a","g","e">>,
    <<"n","o","r","m","a","l">>,
    <<"s","t","a","n","d","a","r","d">>,
    <<"t","y","p","i","c","a","l">>,
    <<"r","e","g","u","l","a","r">>,
    <<"m","o","d","e","r","a","t","e">>,
    <<"a","c","c","e","p","t","a","b","l","e">>,
    <<"d","e","c","e","n","t">>,
    <<"f","a","i","r">>,
    <<"r","e","a","s","o","n","a","b","l","e">>
  }

negationWords ==
  {
    <<"n","o","t">>,
    <<"n","o">>,
    <<"n","e","v","e","r">>,
    <<"n","o","n","e">>,
    <<"n","o","t","h","i","n","g">>,
    <<"n","o","w","h","e","r","e">>,
    <<"n","e","i","t","h","e","r">>,
    <<"n","o","b","o","d","y">>
  }

intensifiers ==
  {
    <<"v","e","r","y">>,
    <<"e","x","t","r","e","m","e","l","y">>,
    <<"i","n","c","r","e","d","i","b","l","y">>,
    <<"a","b","s","o","l","u","t","e","l","y">>,
    <<"c","o","m","p","l","e","t","e","l","y">>,
    <<"t","o","t","a","l","l","y">>
  }

\* the emotions object of getEmotionAnalysis, in key order
emotions ==
  <<
    [emotion |-> "joy", keywords |->
      {<<"h","a","p","p","y">>,
       <<"e","x","c","i","t","e","d">>,
       <<"t","h","r","i","l","l","e","d">>,
       <<"d","e","l","i","g","h","t","e","d">>,
       <<"p","l","e","a","s","e","d">>,
       <<"s","a","t","i","s","f","i","e","d">>}],
    [emotion |-> "anger", keywords |->
      {<<"a","n","g","r","y">>,
       <<"f","u","r","i","o","u","s">>,
       <<"m","a","d">>,
       <<"i","r","r","i","t","a","t","e","d">>,
       <<"a","n","n","o","y","e","d">>,
       <<"f","r","u","s","t","r","a","t","e","d">>}],
    [emotion |-> "fear", keywords |->
      {<<"s","c","a","r","e","d">>,
       <<"a","f","r","a","i","d">>,
       <<"w","o","r","r","i","e","d">>,
       <<"a","n","x","i","o","u","s">>,
       <<"c","o","n","c","e","r","n","e","d">>,
       <<"n","e","r","v","o","u","s">>}],
    [emotion |-> "sadness", keywords |->
      {<<"s","a","d">>,
       <<"d","i","s","a","p","p","o","i","n","t","e","d">>,
       <<"u","p","s","e","t">>,
       <<"d","e","p","r","e","s","s","e","d">>,
       <<"u","n","h","a","p","p","y">>}],
    [emotion |-> "surprise", keywords |->
      {<<"s","u","r","p","r","i","s","e","d">>,
       <<"s","h","o","c","k","e","d">>,
       <<"a","m","a","z","e","d">>,
       <<"a","s","t","o","n","i","s","h","e","d">>,
       <<"s","t","u","n","n","e","d">>}],
    [emotion |-> "trust", keywords |->
      {<<"t","r","u","s","t">>,
       <<"c","o","n","f","i","d","e","n","t">>,
       <<"r","e","l","i","a","b","l","e">>,
       <<"d","e","p","e","n","d","a","b","l","e">>,
       <<"s","e","c","u","r","e">>}]
  >>
(***************************************************************************)
(* The service object and one call of a public function.                   *)
(*   isInitialized, batchSize   fields set by the constructor              *)
(*   lexicon                    the keyword lists that initialize() sets   *)
(*   fn, arg, arg2              the function called and its arguments      *)
(*   outcome, result            "returned" with a value, or "threw"        *)
(*   locals                     locals of calculateSentimentScore          *)
(*   pc, i, batch, callState, batchResults, results                        *)
(*                              the frame of analyzeBatch across its await *)
(*   batchFrom, iter, started, completed                                   *)
(*                              which texts the loop iterations have       *)
(*                              passed to analyzeSentiment (pairs of       *)
(*                              iteration and index), and the calls that   *)
(*                              have completed, in order of completion     *)
(*   history                    the calls that have returned to the caller *)
(* The data collection service, its rate limiters and the database:        *)
(*   isRunning                  the flag of collectAllData                 *)
(*   credentials                the sources whose API credentials are set  *)
(*   subreddits, newsKeywords   the configured subreddits and keywords     *)
(*   feed                       the items each source's API returns        *)
(*   cpc, keyIndex, pending, totalCollected                                *)
(*                              per source: the position of the collector, *)
(*                              its subreddit or keyword, the items of the *)
(*                              response still to process, its count       *)
(*   consumed, windowRequests   per source: the points consumed and the    *)
(*                              requests issued in the limiter's window    *)
(*   posts, sentimentData       the stored post and sentiment records      *)
(*   faults                     the API and database calls that have failed *)
(*   cycles                     the calls of collectAllData that have set  *)
(*                              the flag and not yet run their finally     *)
(*   lastCall                   how the last trigger of a collection ended *)
(*   runLog                     per source: the post ids whose savePost    *)
(*                              succeeded and the saveSentimentData calls  *)
(*                              that succeeded in the collector's run      *)
(*   pool, dbIsInitialized, inMemoryData   the fields of DatabaseService   *)
(*   dbCall                     the last call of DatabaseService           *)
(*   useRedis, redisClient, nodeCache, cacheIsInitialized                  *)
(*                              the fields of CacheService                 *)
(*   redisData                  the strings the Redis server holds         *)
(*   cacheCall, gos             the last call of CacheService, the frame   *)
(*                              of getOrSet                                *)
(*   written                    per key: the value last set with success   *)
(*   aiIsInitialized, client, aiCall   the fields of OpenAIService and the *)
(*                              frame of its generate call                 *)
(*   health                     the frame of the GET /api/health handler   *)
(***************************************************************************)
VARIABLES isInitialized, lexicon, batchSize, fn, arg, arg2, outcome, result, locals,
          pc, i, batch, batchFrom, callState, batchResults, results,
          iter, started, completed, history,
          isRunning, credentials, subreddits, newsKeywords, feed, cpc, keyIndex, pending,
          totalCollected, consumed, windowRequests, posts, sentimentData, faults,
          cycles, lastCall, runLog,
          pool, dbIsInitialized, inMemoryData, dbCall,
          useRedis, redisClient, nodeCache, redisData, cacheIsInitialized, cacheCall, gos,
          written,
          aiIsInitialized, client, aiCall,
          health

batchVars == <<pc, i, batch, batchFrom, callState, batchResults, results,
               iter, started, completed>>

collectVars == <<isRunning, credentials, subreddits, newsKeywords, feed, cpc,
                 keyIndex, pending,
                 totalCollected, consumed, windowRequests, posts, sentimentData,
                 faults, cycles, lastCall, runLog>>

dbVars == <<pool, dbIsInitialized, inMemoryData, dbCall>>

cacheVars == <<useRedis, redisClient, nodeCache, redisData, cacheIsInitialized,
               cacheCall, gos, written>>

aiVars == <<aiIsInitialized, client, aiCall>>

platformVars == <<dbVars, cacheVars, aiVars, health>>

vars == <<isInitialized, lexicon, batchSize, fn, arg, arg2, outcome, result, locals,
          batchVars, history, collectVars, platformVars>>

svcVars == <<isInitialized, lexicon, batchSize>>

callVars == <<fn, arg, arg2, outcome, result, locals>>

\* this.positiveKeywords, this.negativeKeywords and this.neutralKeywords
\* before initialize() (undefined) and after it
noLexicon == [loaded |-> FALSE, positive |-> {}, negative |-> {}, neutral |-> {}]

loadedLexicon ==
  [loaded |-> TRUE,
   positive |-> positiveKeywords,
   negative |-> negativeKeywords,
   neutral |-> neutralKeywords]
(***************************************************************************)
(* preprocessText, calculateSentimentScore and applyContextModifiers.      *)
(***************************************************************************)
QDiv(a, b) == Q(a.n * b.d, a.d * b.n)

preprocessText(text) ==
  IF text.type # "string" \/ text.chars = <<>> THEN <<>>
  ELSE trim(normalizeWhitespace(replacePunctuation(toLowerCase(text.chars))))

\* the branch of the forEach body that a word takes
keywordType(word) ==
  IF word \in lexicon.positive THEN "positive"
  ELSE IF word \in lexicon.negative THEN "negative"
  ELSE IF word \in lexicon.neutral THEN "neutral"
  ELSE "none"

countType(words, ty) ==
  Cardinality({j \in 1..Len(words) : keywordType(words[j]) = ty})

\* foundKeywords.map(k => k.word)
foundKeywords(words) == SelectSeq(words, LAMBDA w : keywordType(w) # "none")

\* baseSentiment with the upper limit 0.95 of the confidence left out
baseSentimentNoCap(words) ==
  LET positiveScore == Q(countType(words, "positive"), 1)
      negativeScore == Q(countType(words, "negative"), 1)
      neutralScore == Q(countType(words, "neutral"), 2)
      totalScore == QAdd(QAdd(positiveScore, negativeScore), neutralScore)
  IN  IF totalScore = Zero
      THEN [sentimentScore |-> Half, confidence |-> Q(3, 10)]
      ELSE [sentimentScore |->
              QAdd(QAdd(QMul(QDiv(positiveScore, totalScore), Q(8, 10)),
                        QMul(QDiv(negativeScore, totalScore), Q(2, 10))), Q(1, 10)),
            confidence |->
              QMax(Q(4, 10), QMul(QDiv(totalScore, Q(Len(words), 1)), Q(2, 1)))]

\* the base score and the confidence of lines 118-134
baseSentiment(words) ==
  LET positiveScore == Q(countType(words, "positive"), 1)
      negativeScore == Q(countType(words, "negative"), 1)
      neutralScore == Q(countType(words, "neutral"), 2)
      totalScore == QAdd(QAdd(positiveScore, negativeScore), neutralScore)
  IN  IF totalScore = Zero
      THEN [sentimentScore |-> Half, confidence |-> Q(3, 10)]
      ELSE LET positiveWeight == QDiv(positiveScore, totalScore)
               negativeWeight == QDiv(negativeScore, totalScore)
           IN  [sentimentScore |->
                  QAdd(QAdd(QMul(positiveWeight, Q(8, 10)),
                            QMul(negativeWeight, Q(2, 10))), Q(1, 10)),
                confidence |->
                  QMin(Q(95, 100),
                       QMax(Q(4, 10),
                            QMul(QDiv(totalScore, Q(Len(words), 1)), Q(2, 1))))]

hasNegation(text) == \E word \in negationWords : includes(text, word)

hasIntensifier(text) == \E word \in intensifiers : includes(text, word)

\* the number of tokens of the text that are negation words
negationWordCount(text) ==
  LET tokens == split(text)
  IN  Cardinality({j \in 1..Len(tokens) : tokens[j] \in negationWords})

\* negationStep inverting once for every negation word
negationStepPerWord(text, score) ==
  IF negationWordCount(text) % 2 = 1 THEN QSub(One, score) ELSE score

\* lines 163-170
negationStep(text, score) ==
  IF hasNegation(text) THEN QSub(One, score) ELSE score

\* lines 172-183
intensifierStep(text, score) ==
  IF hasIntensifier(text)
  THEN IF QLt(Half, score)
       THEN QMin(One, QMul(score, Q(12, 10)))
       ELSE QMax(Zero, QMul(score, Q(8, 10)))
  ELSE score

\* lines 185-188
questionStep(text, score) ==
  IF includes(text, <<"?">>) THEN QDivInt(QAdd(score, Half), 2) ELSE score

\* lines 190-199
exclamationStep(text, score) ==
  LET exclamationCount == countChar(text, "!")
      intensity == QMin(Q(2, 10), QMul(Q(exclamationCount, 1), Q(1, 10)))
  IN  IF exclamationCount > 0
      THEN IF QLt(Half, score)
           THEN QMin(One, QAdd(score, intensity))
           ELSE QMax(Zero, QSub(score, intensity))
      ELSE score

applyContextModifiers(text, baseScore) ==
  exclamationStep(text,
    questionStep(text,
      intensifierStep(text,
        negationStep(text, baseScore))))

\* lines 142-150, on the clamped and not yet rounded score
labelOf(sentimentScore) ==
  IF QLe(Q(6, 10), sentimentScore) THEN "POSITIVE"
  ELSE IF QLe(sentimentScore, Q(4, 10)) THEN "NEGATIVE"
  ELSE "NEUTRAL"

\* scoreLocals discarding only the tokens of a single character
scoreLocalsKeepShort(text) ==
  LET words == SelectSeq(split(text), LAMBDA word : Len(word) > 1)
      base == baseSentiment(words)
      negated == negationStep(text, base.sentimentScore)
      modified == applyContextModifiers(text, base.sentimentScore)
      clamped == QMax(Zero, QMin(One, modified))
  IN  [text |-> text,
       words |-> words,
       baseScore |-> base.sentimentScore,
       negated |-> negated,
       modified |-> modified,
       sentimentScore |-> clamped,
       result |-> [score |-> toFixed3(clamped),
                   label |-> labelOf(clamped),
                   confidence |-> toFixed3(base.confidence),
                   keywords |-> foundKeywords(words)]]

\* every local of calculateSentimentScore(text), text a string
scoreLocals(text) ==
  LET words == SelectSeq(split(text), LAMBDA word : Len(word) > 2)
      base == baseSentiment(words)
      negated == negationStep(text, base.sentimentScore)
      modified == applyContextModifiers(text, base.sentimentScore)
      clamped == QMax(Zero, QMin(One, modified))
  IN  [text |-> text,
       words |-> words,
       baseScore |-> base.sentimentScore,
       negated |-> negated,
       modified |-> modified,
       sentimentScore |-> clamped,
       result |-> [score |-> toFixed3(clamped),
                   label |-> labelOf(clamped),
                   confidence |-> toFixed3(base.confidence),
                   keywords |-> foundKeywords(words)]]

calculateSentimentScore(text) == scoreLocals(text).result

\* getDefaultSentiment with the confidence of the lower limit of a match
getDefaultSentimentAsMatch ==
  [sentiment_score |-> Half,
   sentiment_label |-> "NEUTRAL",
   confidence |-> Q(4, 10),
   keywords |-> <<>>]

getDefaultSentiment ==
  [sentiment_score |-> Half,
   sentiment_label |-> "NEUTRAL",
   confidence |-> Q(3, 10),
   keywords |-> <<>>]

\* the value analyzeSentiment(text) resolves to
analyzeSentiment(initialized, text) ==
  IF ~initialized THEN getDefaultSentiment
  ELSE LET sentiment == calculateSentimentScore(preprocessText(text))
       IN  [sentiment_score |-> sentiment.score,
            sentiment_label |-> sentiment.label,
            confidence |-> sentiment.confidence,
            keywords |-> sentiment.keywords]

(***************************************************************************)
(* The explored texts.                                                     *)
(***************************************************************************)
RECURSIVE Rep(_, _)
Rep(w, k) == IF k = 0 THEN <<>> ELSE <<w>> \o Rep(w, k - 1)

RECURSIVE Join(_)
Join(ws) ==
  IF ws = <<>> THEN <<>>
  ELSE IF Len(ws) = 1 THEN ws[1]
  ELSE ws[1] \o <<" ">> \o Join(Tail(ws))

\* p positive, n negative and u neutral keywords, g negation words, an
\* intensifier, another word, then a question mark and k exclamation marks
GenText(p, n, u, g, v, o, q, k) ==
  Join(Rep(<<"l","o","v","e">>, p) \o Rep(<<"b","a","d">>, n)
       \o Rep(<<"f","i","n","e">>, u) \o Rep(<<"n","o","t">>, g)
       \o Rep(<<"v","e","r","y">>, v) \o Rep(<<"c","a","t">>, o))
  \o Rep("?", q) \o Rep("!", k)

GeneratedTexts ==
  {GenText(p, n, u, g, v, o, q, k) :
     p \in 0..MaxPos, n \in 0..MaxNeg, u \in 0..MaxNeu, g \in 0..MaxNegations,
     v \in 0..1, o \in 0..1, q \in 0..1, k \in 0..MaxExcl}

ExampleTexts ==
  {
    <<"T","h","i","s"," ","p","r","o","d","u","c","t"," ","i","s"," ","e","x","c","e","l","l","e","n","t"," ","a","n","d"," ","a","m","a","z","i","n","g","!">>,
    <<"T","h","i","s"," ","i","s"," ","n","o","t"," ","g","o","o","d"," ","a","t"," ","a","l","l">>,
    <<"a","n","n","o","y","i","n","g">>,
    <<"i","n","n","o","v","a","t","i","o","n">>,
    <<"n","o","r","m","a","l">>,
    <<"B","A","D">>,
    <<" ","b","a","d"," "," ","b","u","g"," ">>,
    <<"o","k","a","y","?">>,
    <<"l","o","v","e","!","!","!">>,
    <<"l","o","v","e","?">>,
    Join(<<<<"i","t">>, <<"i","s">>, <<"s","o">>, <<"b","a","d">>, <<"o","r">>, <<"f","i","n","e">>, <<"t","o">>, <<"l","o","v","e">>, <<"a","l","l">>, <<"o","f">>, <<"t","h","a","t">>, <<"s","t","u","f","f">>, <<"h","e","r","e">>>>),
    GenText(7, 7, 1, 0, 1, 0, 1, 0),
    GenText(2, 12, 1, 0, 1, 0, 1, 0),
    GenText(3, 11, 1, 1, 1, 0, 1, 0)
  }

ScoreInputs == GeneratedTexts \cup ExampleTexts
(***************************************************************************)
(* Array.prototype.slice and the stable descending sort used by            *)
(* extractKeywords and getEmotionAnalysis.                                 *)
(***************************************************************************)
Min(a, b) == IF a <= b THEN a ELSE b
Max(a, b) == IF a <= b THEN b ELSE a

\* the relative index k of slice, resolved against an array of length len
sliceIndex(len, k) == IF k < 0 THEN Max(len + k, 0) ELSE Min(k, len)

\* xs.slice(start, end)
slice(xs, start, end) ==
  SubSeq(xs, sliceIndex(Len(xs), start) + 1, sliceIndex(Len(xs), end))

\* the comparator ([,a], [,b]) => b - a on two entries; b - a is NaN when a
\* count is not a number, and sort takes NaN as +0
compareCounts(x, y) ==
  IF x.number /\ y.number THEN y.count - x.count ELSE 0

\* insertByCount placing an entry before the entries it is equal to
insertByCountBeforeTies(sorted, e) ==
  LET k == Cardinality({j \in 1..Len(sorted) : compareCounts(sorted[j], e) < 0})
  IN  SubSeq(sorted, 1, k) \o <<e>> \o SubSeq(sorted, k + 1, Len(sorted))

\* entries.sort(([,a], [,b]) => b - a): stable, by descending count
insertByCount(sorted, e) ==
  LET k == Cardinality({j \in 1..Len(sorted) : compareCounts(sorted[j], e) <= 0})
  IN  SubSeq(sorted, 1, k) \o <<e>> \o SubSeq(sorted, k + 1, Len(sorted))

RECURSIVE sortFrom(_, _, _)
sortFrom(entries, j, sorted) ==
  IF j > Len(entries) THEN sorted
  ELSE sortFrom(entries, j + 1, insertByCount(sorted, entries[j]))

sortByCountDesc(entries) == sortFrom(entries, 1, <<>>)

\* the comparator orders the entries consistently: equality under it is
\* transitive.  It is not when an entry whose count is not a number (equal
\* to every entry) meets two entries with different counts.
consistentComparator(entries) ==
  \A x, y, z \in 1..Len(entries) :
    (compareCounts(entries[x], entries[y]) = 0
     /\ compareCounts(entries[y], entries[z]) = 0) =>
      compareCounts(entries[x], entries[z]) = 0

\* every order of the entries
permutations(entries) ==
  LET n == Len(entries)
      bijections == {f \in [1..n -> 1..n] : \A x, y \in 1..n : f[x] = f[y] => x = y}
  IN  {[j \in 1..n |-> entries[f[j]]] : f \in bijections}

\* the orders that entries.sort can leave: the stable descending order, or an
\* implementation-defined order when the comparator is not consistent
sortOutcomes(entries) ==
  IF consistentComparator(entries) THEN {sortByCountDesc(entries)}
  ELSE permutations(entries)

(***************************************************************************)
(* extractBrandMentions, extractKeywords and getEmotionAnalysis.           *)
(***************************************************************************)
\* a property name that Object.entries lists before the other names
isIndexKey(w) ==
  /\ Len(w) <= 9
  /\ \A j \in 1..Len(w) : w[j] \in Digits
  /\ w[1] # "0"

RECURSIVE keyNumber(_)
keyNumber(w) ==
  IF w = <<>> THEN 0
  ELSE 10 * keyNumber(SubSeq(w, 1, Len(w) - 1))
       + (CHOOSE v \in 0..9 : ToString(v) = w[Len(w)])

\* the names that the empty object literal wordFreq = {} inherits and that
\* preprocessText can produce as a word
ConstructorKey == <<"c","o","n","s","t","r","u","c","t","o","r">>
ProtoKey == <<"_","_","p","r","o","t","o","_","_">>

\* the words that become own properties of wordFreq, each once, in order of
\* first occurrence; an assignment to wordFreq['__proto__'] of a string is
\* ignored by the inherited setter
RECURSIVE firstSeen(_, _, _)
firstSeen(words, j, seen) ==
  IF j > Len(words) THEN seen
  ELSE IF /\ Len(words[j]) > 3
          /\ words[j] # ProtoKey
          /\ \A m \in 1..Len(seen) : seen[m] # words[j]
       THEN firstSeen(words, j + 1, Append(seen, words[j]))
       ELSE firstSeen(words, j + 1, seen)

RECURSIVE ascending(_, _, _)
ascending(keys, j, sorted) ==
  IF j > Len(keys) THEN sorted
  ELSE LET k == Cardinality({m \in 1..Len(sorted) :
                               keyNumber(sorted[m]) < keyNumber(keys[j])})
       IN  ascending(keys, j + 1,
                     SubSeq(sorted, 1, k) \o <<keys[j]>>
                       \o SubSeq(sorted, k + 1, Len(sorted)))

\* Object.entries(wordFreq).  The value of wordFreq['constructor'] is the
\* inherited function with "1" appended once per occurrence, a string and not
\* a number.
wordFreqEntries(words) ==
  LET seen == firstSeen(words, 1, <<>>)
      keys == ascending(SelectSeq(seen, isIndexKey), 1, <<>>)
                \o SelectSeq(seen, LAMBDA w : ~isIndexKey(w))
  IN  [j \in 1..Len(keys) |->
         [word |-> keys[j],
          count |-> Cardinality({m \in 1..Len(words) : words[m] = keys[j]}),
          number |-> keys[j] # ConstructorKey]]

\* the integer that slice makes of the argument maxKeywords
maxKeywordsOf(v) ==
  IF v.type = "undefined" THEN 10
  ELSE IF v.type = "number" THEN v.num
  ELSE IF v.type = "array" /\ Len(v.items) = 1 /\ v.items[1].type = "number"
       THEN v.items[1].num
  ELSE 0

\* the values that extractKeywords(text, maxKeywords) can return
extractKeywords(text, maxKeywords) ==
  LET words == split(preprocessText(text))
  IN  {LET top == slice(sorted, 0, maxKeywordsOf(maxKeywords))
       IN  [j \in 1..Len(top) |-> top[j].word] :
         sorted \in sortOutcomes(wordFreqEntries(words))}

getEmotionAnalysis(text) ==
  LET cleanText == preprocessText(text)
      emotionScores ==
        [j \in 1..Len(emotions) |->
           [word |-> emotions[j].emotion,
            count |-> Cardinality({keyword \in emotions[j].keywords :
                                     includes(cleanText, keyword)}),
            number |-> TRUE]]
      dominantEmotion == sortByCountDesc(emotionScores)[1]
  IN  [dominant_emotion |->
         IF dominantEmotion.count > 0 THEN dominantEmotion.word ELSE "neutral",
       emotion_scores |-> emotionScores]

\* extractBrandMentions(text, brands) throws a TypeError
extractBrandMentionsThrows(text, brands) ==
  /\ brands.type = "array"
  /\ \/ text.type # "string"
     \/ \E j \in 1..Len(brands.items) : brands.items[j].type # "string"

extractBrandMentions(text, brands) ==
  IF brands.type # "array" THEN <<>>
  ELSE LET cleanText == toLowerCase(text.chars)
       IN  SelectSeq(brands.items,
                     LAMBDA brand : includes(cleanText, toLowerCase(brand.chars)))
NoLocals == [text |-> <<>>, words |-> <<>>, baseScore |-> Half,
             negated |-> Half, modified |-> Half, sentimentScore |-> Half,
             result |-> [score |-> Half, label |-> "NEUTRAL",
                         confidence |-> Q(3, 10), keywords |-> <<>>]]

\* parseInt(process.env.BATCH_SIZE) || 32
configuredBatchSize(env) ==
  IF ~env.set \/ env.value = 0 THEN 32 ELSE env.value

EnvSettings ==
  {[set |-> FALSE, value |-> 0]}
    \cup {[set |-> TRUE, value |-> v] : v \in -1..MaxEnvBatch}

\* no public function has been called yet
NoCallYet ==
  /\ fn = "none"
  /\ outcome = "none"
  /\ result = <<>>
  /\ locals = NoLocals
  /\ pc = "idle"
  /\ i = 0
  /\ batch = <<>>
  /\ batchFrom = 0
  /\ callState = <<>>
  /\ batchResults = <<>>
  /\ results = <<>>
  /\ iter = 0
  /\ started = {}
  /\ completed = <<>>
  /\ history = {}

\* the state after new SentimentAnalysisService()
Created(env) ==
  /\ isInitialized = FALSE
  /\ lexicon = noLexicon
  /\ batchSize = configuredBatchSize(env)
  /\ NoCallYet

\* the state after new SentimentAnalysisService() and initialize(), before
\* any other call
Constructed(env) ==
  /\ isInitialized = TRUE
  /\ lexicon = loadedLexicon
  /\ batchSize = configuredBatchSize(env)
  /\ NoCallYet

\* initialize(): the assignments of lines 13-30 cannot throw
Initialize ==
  /\ fn = "none"
  /\ ~isInitialized
  /\ lexicon' = loadedLexicon
  /\ isInitialized' = TRUE
  /\ UNCHANGED <<batchSize, fn, arg, arg2, outcome, result, locals, batchVars,
                 history, collectVars, platformVars>>

Returns(f, value, frame) ==
  /\ fn' = f
  /\ outcome' = "returned"
  /\ result' = value
  /\ locals' = frame

Throws(f) ==
  /\ fn' = f
  /\ outcome' = "threw"
  /\ result' = <<>>
  /\ locals' = NoLocals

CallPreprocessText ==
  /\ fn = "none"
  /\ Returns("preprocessText", preprocessText(arg), NoLocals)
  /\ UNCHANGED <<svcVars, arg, arg2, batchVars, history, collectVars, platformVars>>

\* text.split is not a function, or text is null or undefined, or a word is
\* looked up in this.positiveKeywords before initialize() has set it
CallCalculateSentimentScore ==
  /\ fn = "none"
  /\ IF arg.type = "string" /\ (lexicon.loaded \/ scoreLocals(arg.chars).words = <<>>)
     THEN Returns("calculateSentimentScore",
                  calculateSentimentScore(arg.chars), scoreLocals(arg.chars))
     ELSE Throws("calculateSentimentScore")
  /\ UNCHANGED <<svcVars, arg, arg2, batchVars, history, collectVars, platformVars>>

\* CallAnalyzeSentiment keeping the words it has scored without a match in
\* this.neutralKeywords
CallAnalyzeSentimentLearning ==
  /\ fn = "none"
  /\ Returns("analyzeSentiment", analyzeSentiment(isInitialized, arg),
             IF isInitialized THEN scoreLocals(preprocessText(arg)) ELSE NoLocals)
  /\ lexicon' =
       IF isInitialized
       THEN LET words == scoreLocals(preprocessText(arg)).words
            IN  [lexicon EXCEPT !.neutral =
                   @ \cup {words[j] : j \in {k \in 1..Len(words) :
                                               keywordType(words[k]) = "none"}}]
       ELSE lexicon
  /\ UNCHANGED <<isInitialized, batchSize, arg, arg2, batchVars, history, collectVars, platformVars>>

CallAnalyzeSentiment ==
  /\ fn = "none"
  /\ Returns("analyzeSentiment", analyzeSentiment(isInitialized, arg),
             IF isInitialized THEN scoreLocals(preprocessText(arg)) ELSE NoLocals)
  /\ UNCHANGED <<svcVars, arg, arg2, batchVars, history, collectVars, platformVars>>

CallExtractBrandMentions ==
  /\ fn = "none"
  /\ IF extractBrandMentionsThrows(arg, arg2)
     THEN Throws("extractBrandMentions")
     ELSE Returns("extractBrandMentions", extractBrandMentions(arg, arg2), NoLocals)
  /\ UNCHANGED <<svcVars, arg, arg2, batchVars, history, collectVars, platformVars>>

CallExtractKeywords ==
  /\ fn = "none"
  /\ \E keywords \in extractKeywords(arg, arg2) :
       Returns("extractKeywords", keywords, NoLocals)
  /\ UNCHANGED <<svcVars, arg, arg2, batchVars, history, collectVars, platformVars>>

CallGetEmotionAnalysis ==
  /\ fn = "none"
  /\ Returns("getEmotionAnalysis", getEmotionAnalysis(arg), NoLocals)
  /\ UNCHANGED <<svcVars, arg, arg2, batchVars, history, collectVars, platformVars>>

(***************************************************************************)
(* analyzeBatch.  One action runs the function from its entry, or from the *)
(* point where the await of Promise.all resumes, up to the next await or   *)
(* to the return.  The analyzeSentiment calls of a batch are all started   *)
(* by batch.map; their promises are fulfilled one by one in any order.     *)
(***************************************************************************)
\* sliceBatch with the end of the slice not offset by i
sliceBatchNoOffset(k) == slice(arg.items, k, batchSize)

\* texts.slice(i, i + batchSize) at i = k
sliceBatch(k) == slice(arg.items, k, k + batchSize)

\* the loop test at index k with the results collected so far
EnterLoop(k, collected, n) ==
  IF k < Len(arg.items) /\ n < MaxIter
  THEN LET from == sliceIndex(Len(arg.items), k)
           nextBatch == sliceBatch(k)
       IN  /\ pc' = "await"
           /\ i' = k
           /\ batch' = nextBatch
           /\ batchFrom' = from
           /\ callState' = [j \in 1..Len(nextBatch) |-> "pending"]
           /\ batchResults' = [j \in 1..Len(nextBatch) |-> <<>>]
           /\ results' = collected
           /\ iter' = n + 1
           /\ started' = started \cup {<<n + 1, from + j - 1>> : j \in 1..Len(nextBatch)}
           /\ UNCHANGED completed
           /\ UNCHANGED <<outcome, result>>
  ELSE IF k < Len(arg.items)
  THEN /\ pc' = "cut"
       /\ i' = k
       /\ results' = collected
       /\ UNCHANGED <<batch, batchFrom, callState, batchResults, iter,
                      started, completed, outcome, result>>
  ELSE /\ pc' = "done"
       /\ i' = k
       /\ results' = collected
       /\ outcome' = "returned"
       /\ result' = collected
       /\ UNCHANGED <<batch, batchFrom, callState, batchResults, iter,
                      started, completed>>

\* CallAnalyzeBatch without the Array.isArray test: the loop reads
\* texts.length and calls texts.slice and batch.map on whatever it is given
CallAnalyzeBatchNoGuard ==
  /\ fn = "none"
  /\ fn' = "analyzeBatch"
  /\ locals' = NoLocals
  /\ IF arg.type = "array"
     THEN EnterLoop(0, <<>>, 0)
     ELSE /\ outcome' = IF arg.type = "number" THEN "returned" ELSE "threw"
          /\ result' = <<>>
          /\ pc' = "done"
          /\ UNCHANGED <<i, batch, batchFrom, callState, batchResults, results,
                         iter, started, completed>>
  /\ UNCHANGED <<svcVars, arg, arg2, history, collectVars, platformVars>>

CallAnalyzeBatch ==
  /\ fn = "none"
  /\ fn' = "analyzeBatch"
  /\ locals' = NoLocals
  /\ IF arg.type # "array"
     THEN /\ outcome' = "returned"
          /\ result' = <<>>
          /\ pc' = "done"
          /\ UNCHANGED <<i, batch, batchFrom, callState, batchResults, results,
                         iter, started, completed>>
     ELSE EnterLoop(0, <<>>, 0)
  /\ UNCHANGED <<svcVars, arg, arg2, history, collectVars, platformVars>>

\* Settle collecting the values in order of completion
SettleInCompletionOrder(j) ==
  /\ pc = "await"
  /\ j \in 1..Len(batch)
  /\ callState[j] = "pending"
  /\ callState' = [callState EXCEPT ![j] = "fulfilled"]
  /\ batchResults' =
       [batchResults EXCEPT
          ![1 + Cardinality({m \in 1..Len(batch) : callState[m] = "fulfilled"})] =
            analyzeSentiment(isInitialized, batch[j])]
  /\ completed' = Append(completed, <<iter, batchFrom + j - 1>>)
  /\ UNCHANGED <<svcVars, history, collectVars, platformVars, fn, arg, arg2, outcome, result, locals,
                 pc, i, batch, batchFrom, results, iter, started>>

\* the promise of the j-th call of the batch is fulfilled
Settle(j) ==
  /\ pc = "await"
  /\ j \in 1..Len(batch)
  /\ callState[j] = "pending"
  /\ callState' = [callState EXCEPT ![j] = "fulfilled"]
  /\ batchResults' = [batchResults EXCEPT ![j] = analyzeSentiment(isInitialized, batch[j])]
  /\ completed' = Append(completed, <<iter, batchFrom + j - 1>>)
  /\ UNCHANGED <<svcVars, history, collectVars, platformVars, fn, arg, arg2, outcome, result, locals,
                 pc, i, batch, batchFrom, results, iter, started>>

\* Resume as soon as one promise of the batch is fulfilled
ResumeOnFirst ==
  /\ pc = "await"
  /\ \E j \in 1..Len(batch) : callState[j] = "fulfilled"
  /\ EnterLoop(i + batchSize, results \o batchResults, iter)
  /\ UNCHANGED <<svcVars, history, collectVars, platformVars, fn, arg, arg2, locals>>

\* Promise.all is fulfilled: results.push(...batchResults); i += batchSize
Resume ==
  /\ pc = "await"
  /\ \A j \in 1..Len(batch) : callState[j] = "fulfilled"
  /\ EnterLoop(i + batchSize, results \o batchResults, iter)
  /\ UNCHANGED <<svcVars, history, collectVars, platformVars, fn, arg, arg2, locals>>

(***************************************************************************)
(* Calls one after another, and calls made while analyzeBatch awaits its   *)
(* batch.  Every function but analyzeBatch runs without an await, so it    *)
(* runs from call to return before any other code does.                    *)
(***************************************************************************)
\* what the caller has seen of a call
Seen(f, a, a2, initialized, how, value) ==
  [fn |-> f, arg |-> a, arg2 |-> a2, initialized |-> initialized,
   outcome |-> how, result |-> value]

\* the caller takes the result of the call and prepares the next call, on
\* the argument next
Complete(next) ==
  /\ fn # "none"
  /\ outcome # "none"
  /\ Cardinality(history) < MaxCalls
  /\ history' = history \cup {Seen(fn, arg, arg2, isInitialized, outcome, result)}
  /\ arg' = next
  /\ fn' = "none"
  /\ outcome' = "none"
  /\ result' = <<>>
  /\ locals' = NoLocals
  /\ pc' = "idle"
  /\ i' = 0
  /\ batch' = <<>>
  /\ batchFrom' = 0
  /\ callState' = <<>>
  /\ batchResults' = <<>>
  /\ results' = <<>>
  /\ iter' = 0
  /\ started' = {}
  /\ completed' = <<>>
  /\ UNCHANGED <<svcVars, arg2, collectVars, platformVars>>

\* while analyzeBatch awaits Promise.all, other code calls f(text) and takes
\* its result
InterleavedCall(f, text) ==
  /\ pc = "await"
  /\ Cardinality(history) < MaxCalls
  /\ \E value \in
          IF f = "analyzeSentiment" THEN {analyzeSentiment(isInitialized, text)}
          ELSE IF f = "extractKeywords" THEN extractKeywords(text, Undefined)
          ELSE {getEmotionAnalysis(text)} :
       history' = history \cup
                    {Seen(f, text, Undefined, isInitialized, "returned", value)}
  /\ UNCHANGED <<svcVars, callVars, batchVars, collectVars, platformVars>>

(***************************************************************************)
(* DataCollectionService, its three rate limiters and the two tables of    *)
(* DatabaseService.  A collector is followed from await to await: the      *)
(* three collectors of a cycle run interleaved under Promise.allSettled.   *)
(***************************************************************************)
Sources == {"reddit", "news", "youtube"}

\* points of the three RateLimiterMemory instances
RedditPoints == 60
NewsPoints == 100
YoutubePoints == 100

points(s) ==
  IF s = "reddit" THEN RedditPoints
  ELSE IF s = "news" THEN NewsPoints
  ELSE YoutubePoints

\* this.targetBrands with TARGET_BRAND unset
targetBrands == <<<<"T","e","s","l","a">>, <<"Z","u","n","t","r","a">>>>

\* DataCollectionService.extractBrandMentions(content)
mentionedBrands(content) ==
  LET lowerContent == toLowerCase(content)
  IN  SelectSeq(targetBrands,
                LAMBDA brand : includes(lowerContent, toLowerCase(brand)))

\* the list a collector iterates: collectYouTubeData also uses newsKeywords
keysOf(s) == IF s = "reddit" THEN subreddits ELSE newsKeywords

\* post_id of the item as the collector of source s builds it (post.id,
\* 'news_' + the encoded url, video.id.videoId)
postIdOf(s, item) == <<s, item.id>>

\* the posts of a response from the first one that mentions a target brand:
\* the for loop passes the others without an await
RECURSIVE fromFirstMention(_)
fromFirstMention(items) ==
  IF items = <<>> THEN <<>>
  ELSE IF mentionedBrands(items[1].content) # <<>> THEN items
  ELSE fromFirstMention(Tail(items))

\* no savePost and no saveSentimentData has succeeded in the run of a collector
NoRuns == [s \in Sources |-> [saved |-> {}, sentiments |-> 0]]

\* the state after new DataCollectionService() and initialize(), with the
\* given credentials, lists and API content, and an empty database
CollectorCreated(creds, subs, keywords, items) ==
  /\ isRunning = FALSE
  /\ credentials = creds
  /\ subreddits = subs
  /\ newsKeywords = keywords
  /\ feed = items
  /\ cpc = [s \in Sources |-> "idle"]
  /\ keyIndex = [s \in Sources |-> 1]
  /\ pending = [s \in Sources |-> <<>>]
  /\ totalCollected = [s \in Sources |-> 0]
  /\ consumed = [s \in Sources |-> 0]
  /\ windowRequests = [s \in Sources |-> 0]
  /\ posts = <<>>
  /\ sentimentData = <<>>
  /\ faults = 0
  /\ cycles = 0
  /\ lastCall = "none"
  /\ runLog = NoRuns

\* no data collection service takes part
NoCollector ==
  CollectorCreated({}, <<"technology">>, <<"Tesla">>, [s \in Sources |-> <<>>])

sentimentServiceVars == <<svcVars, callVars, batchVars, history>>

configVars == <<credentials, subreddits, newsKeywords, feed>>

\* the call succeeds, or it is one of the calls that fail
Outcome(ok) ==
  IF ok THEN UNCHANGED faults
  ELSE faults < MaxFaults /\ faults' = faults + 1

\* collectAllData() up to the await of Promise.allSettled: each collector
\* has run to its first await, or has returned 0 for want of credentials
StartCycle ==
  /\ ~isRunning
  /\ Len(sentimentData) < MaxRecords
  /\ isRunning' = TRUE
  /\ cpc' = [s \in Sources |-> IF s \in credentials THEN "consume" ELSE "done"]
  /\ keyIndex' = [s \in Sources |-> 1]
  /\ pending' = [s \in Sources |-> <<>>]
  /\ totalCollected' = [s \in Sources |-> 0]
  /\ cycles' = cycles + 1
  /\ lastCall' = "started"
  /\ runLog' = NoRuns
  /\ UNCHANGED <<sentimentServiceVars, platformVars, configVars, consumed, windowRequests,
                 posts, sentimentData, faults>>

\* the collector of s goes on to its next subreddit or keyword, or returns
ToNextKey(s) ==
  /\ cpc' = [cpc EXCEPT ![s] = IF keyIndex[s] < Len(keysOf(s)) THEN "consume" ELSE "done"]
  /\ keyIndex' = [keyIndex EXCEPT ![s] = IF keyIndex[s] < Len(keysOf(s)) THEN @ + 1 ELSE @]
  /\ pending' = [pending EXCEPT ![s] = <<>>]

\* an inner catch that passes the error on: the collector is left
InnerCatchRethrows(s) ==
  /\ cpc' = [cpc EXCEPT ![s] = "done"]
  /\ pending' = [pending EXCEPT ![s] = <<>>]
  /\ UNCHANGED keyIndex

\* catch (subredditError) / catch (keywordError): the error is logged and the
\* for loop goes on with the next subreddit or keyword
InnerCatch(s) == ToNextKey(s)

\* Consume issuing the request whether or not a point was left
ConsumeUnchecked(s) ==
  /\ cpc[s] = "consume"
  /\ consumed' = [consumed EXCEPT ![s] = IF @ < points(s) THEN @ + 1 ELSE @]
  /\ windowRequests' = [windowRequests EXCEPT ![s] = @ + 1]
  /\ cpc' = [cpc EXCEPT ![s] = "request"]
  /\ UNCHANGED <<sentimentServiceVars, platformVars, configVars, isRunning, keyIndex, pending,
                 totalCollected, posts, sentimentData, faults, cycles, lastCall,
                 runLog>>

\* await this.<s>Limiter.consume(s): a point is taken while the window has
\* one left, and the collector, resumed, at once issues the API request for
\* its subreddit or keyword (getHot, axios.get) and awaits the answer;
\* otherwise the promise is rejected, which the outer catch of the collector
\* takes, and the collector returns
Consume(s) ==
  /\ cpc[s] = "consume"
  /\ IF consumed[s] < points(s)
     THEN /\ consumed' = [consumed EXCEPT ![s] = @ + 1]
          /\ windowRequests' = [windowRequests EXCEPT ![s] = @ + 1]
          /\ cpc' = [cpc EXCEPT ![s] = "request"]
     ELSE /\ cpc' = [cpc EXCEPT ![s] = "done"]
          /\ UNCHANGED <<consumed, windowRequests>>
  /\ UNCHANGED <<sentimentServiceVars, platformVars, configVars, isRunning, keyIndex, pending,
                 totalCollected, posts, sentimentData, faults, cycles, lastCall,
                 runLog>>

\* the window of the limiter of s ends: its points are given back
WindowExpires(s) ==
  /\ consumed[s] > 0
  /\ consumed' = [consumed EXCEPT ![s] = 0]
  /\ windowRequests' = [windowRequests EXCEPT ![s] = 0]
  /\ UNCHANGED <<sentimentServiceVars, platformVars, configVars, isRunning, cpc, keyIndex,
                 pending, totalCollected, posts, sentimentData, faults, cycles,
                 lastCall, runLog>>

\* the API request is settled: it has failed, which the inner catch takes,
\* or it is answered with the items
Request(s, ok) ==
  /\ cpc[s] = "request"
  /\ Outcome(ok)
  /\ IF ~ok
     THEN InnerCatch(s)
     ELSE LET items == fromFirstMention(feed[s])
          IN  IF items = <<>>
              THEN ToNextKey(s)
              ELSE /\ cpc' = [cpc EXCEPT ![s] = "savePost"]
                   /\ pending' = [pending EXCEPT ![s] = items]
                   /\ UNCHANGED keyIndex
  /\ UNCHANGED <<sentimentServiceVars, platformVars, configVars, isRunning, totalCollected,
                 consumed, windowRequests, posts, sentimentData, cycles, lastCall,
                 runLog>>

\* DatabaseService.savePost: INSERT ... ON CONFLICT (post_id) DO UPDATE, or
\* in memory findIndex by post_id and replace or push
savePost(table, postId) ==
  IF \E j \in 1..Len(table) : table[j].post_id = postId
  THEN table
  ELSE Append(table, [post_id |-> postId])

\* a collector that goes on to the sentiment of the item although savePost
\* was rejected
SavePostErrorSwallowed(s, ok) ==
  /\ cpc[s] = "savePost"
  /\ Outcome(ok)
  /\ IF ok
     THEN /\ posts' = savePost(posts, postIdOf(s, pending[s][1]))
          /\ runLog' = [runLog EXCEPT ![s].saved = @ \cup {postIdOf(s, pending[s][1])}]
     ELSE UNCHANGED <<posts, runLog>>
  /\ cpc' = [cpc EXCEPT ![s] = "saveSentimentData"]
  /\ UNCHANGED <<keyIndex, pending>>
  /\ UNCHANGED <<sentimentServiceVars, platformVars, configVars, isRunning, totalCollected,
                 consumed, windowRequests, sentimentData, cycles, lastCall>>

\* await this.database.savePost(...) for the first pending item
SavePost(s, ok) ==
  /\ cpc[s] = "savePost"
  /\ Outcome(ok)
  /\ IF ok
     THEN /\ posts' = savePost(posts, postIdOf(s, pending[s][1]))
          /\ runLog' = [runLog EXCEPT ![s].saved = @ \cup {postIdOf(s, pending[s][1])}]
          /\ cpc' = [cpc EXCEPT ![s] = "saveSentimentData"]
          /\ UNCHANGED <<keyIndex, pending>>
     ELSE /\ InnerCatch(s)
          /\ UNCHANGED <<posts, runLog>>
  /\ UNCHANGED <<sentimentServiceVars, platformVars, configVars, isRunning, totalCollected,
                 consumed, windowRequests, sentimentData, cycles, lastCall>>

\* DatabaseService.saveSentimentData: a plain INSERT, or in memory a push
saveSentimentData(table, postId, analysis) ==
  Append(table, [post_id |-> postId, sentiment_label |-> analysis.sentiment_label])

\* await this.sentiment.analyzeSentiment(content), then
\* await this.database.saveSentimentData(...), totalCollected++ and the
\* for loop up to the next post that mentions a brand
SaveSentimentData(s, ok) ==
  /\ cpc[s] = "saveSentimentData"
  /\ Outcome(ok)
  /\ IF ok
     THEN LET item == pending[s][1]
              rest == fromFirstMention(Tail(pending[s]))
          IN  /\ sentimentData' =
                   saveSentimentData(sentimentData, postIdOf(s, item),
                                     analyzeSentiment(isInitialized, Str(item.content)))
              /\ totalCollected' = [totalCollected EXCEPT ![s] = @ + 1]
              /\ runLog' = [runLog EXCEPT ![s].sentiments = @ + 1]
              /\ IF rest = <<>>
                 THEN ToNextKey(s)
                 ELSE /\ cpc' = [cpc EXCEPT ![s] = "savePost"]
                      /\ pending' = [pending EXCEPT ![s] = rest]
                      /\ UNCHANGED keyIndex
     ELSE /\ InnerCatch(s)
          /\ UNCHANGED <<sentimentData, totalCollected, runLog>>
  /\ UNCHANGED <<sentimentServiceVars, platformVars, configVars, isRunning, consumed,
                 windowRequests, posts, cycles, lastCall>>

\* a finally block that leaves the flag set
FinishCycleKeepsFlag ==
  /\ isRunning
  /\ \A s \in Sources : cpc[s] = "done"
  /\ cpc' = [s \in Sources |-> "idle"]
  /\ cycles' = cycles - 1
  /\ UNCHANGED <<sentimentServiceVars, platformVars, configVars, isRunning, keyIndex,
                 pending, totalCollected, consumed, windowRequests, posts,
                 sentimentData, faults, lastCall, runLog>>

\* the three collector promises have settled: collectAllData resumes and its
\* finally block clears the flag
FinishCycle ==
  /\ isRunning
  /\ \A s \in Sources : cpc[s] = "done"
  /\ isRunning' = FALSE
  /\ cpc' = [s \in Sources |-> "idle"]
  /\ cycles' = cycles - 1
  /\ UNCHANGED <<sentimentServiceVars, platformVars, configVars, keyIndex, pending,
                 totalCollected, consumed, windowRequests, posts, sentimentData,
                 faults, lastCall, runLog>>

\* collectAllData() called while the flag is set: it logs and returns
SkipCycle ==
  /\ isRunning
  /\ lastCall' = "skipped"
  /\ UNCHANGED <<sentimentServiceVars, platformVars, configVars, isRunning, cpc,
                 keyIndex, pending, totalCollected, consumed, windowRequests, posts,
                 sentimentData, faults, cycles, runLog>>

\* collectAllData() without the test of the flag
collectAllDataUnguarded ==
  /\ Len(sentimentData) < MaxRecords
  /\ isRunning' = TRUE
  /\ cpc' = [s \in Sources |-> IF s \in credentials THEN "consume" ELSE "done"]
  /\ keyIndex' = [s \in Sources |-> 1]
  /\ pending' = [s \in Sources |-> <<>>]
  /\ totalCollected' = [s \in Sources |-> 0]
  /\ cycles' = cycles + 1
  /\ lastCall' = "started"
  /\ runLog' = NoRuns
  /\ UNCHANGED <<sentimentServiceVars, platformVars, configVars, consumed, windowRequests,
                 posts, sentimentData, faults>>

\* collectAllData(), from its call to its return or to its await: the flag
\* is tested and set without an await in between
collectAllData == IF isRunning THEN SkipCycle ELSE StartCycle

\* the callback of cron.schedule: await dataCollectionService.collectAllData()
CronTick == collectAllData

\* POST /api/collect-data: 'Data collection already running' while the flag
\* is set, else collectAllData() is called, not awaited, and the answer is
\* 'Data collection started'
PostCollectData ==
  IF isRunning
  THEN /\ lastCall' = "already running"
       /\ UNCHANGED <<sentimentServiceVars, platformVars, configVars, isRunning, cpc,
                      keyIndex, pending, totalCollected, consumed, windowRequests,
                      posts, sentimentData, faults, cycles, runLog>>
  ELSE collectAllData

(***************************************************************************)
(* DatabaseService.  this.pool is "null" or the Pool object; the tables    *)
(* posts and sentimentData are those of the PostgreSQL server, and         *)
(* inMemoryData holds the lists of the fallback.  A query of the pool      *)
(* succeeds or is rejected as the server decides.                          *)
(***************************************************************************)
NoDbCall == [op |-> "none", outcome |-> "none", usedPool |-> FALSE, id |-> 0, rows |-> <<>>]

DbReturns(op, usedPool, id, rows) ==
  [op |-> op, outcome |-> "returned", usedPool |-> usedPool, id |-> id, rows |-> rows]

DbThrows(op, usedPool) ==
  [op |-> op, outcome |-> "threw", usedPool |-> usedPool, id |-> 0, rows |-> <<>>]

\* this.inMemoryData before initializeInMemoryStorage() (undefined)
noInMemoryData == [defined |-> FALSE, posts |-> <<>>, sentimentData |-> <<>>]

\* new DatabaseService()
DatabaseCreated ==
  /\ pool = "null"
  /\ dbIsInitialized = FALSE
  /\ inMemoryData = noInMemoryData
  /\ dbCall = NoDbCall

\* initializeInMemoryStorage(): the value given to this.inMemoryData
initializeInMemoryStorage == [defined |-> TRUE, posts |-> <<>>, sentimentData |-> <<>>]

\* initialize(): the pool is created; then the connection test and
\* createTables succeed (how = "ok"), or 'SELECT NOW()' is rejected
\* (how = "query"), or the query of createTables is (how = "createTables"),
\* and the catch block calls initializeInMemoryStorage()
DbInitialize(how) ==
  /\ ~dbIsInitialized
  /\ pool' = "pool"
  /\ dbIsInitialized' = TRUE
  /\ inMemoryData' = IF how = "ok" THEN inMemoryData ELSE initializeInMemoryStorage
  /\ dbCall' = DbReturns("initialize", TRUE, 0, <<>>)
  /\ UNCHANGED <<sentimentServiceVars, collectVars, cacheVars, aiVars, health>>

\* the index of the record with the given post_id, 0 when there is none
\* (findIndex + 1)
existingIndex(table, postId) ==
  IF \E j \in 1..Len(table) : table[j].post_id = postId
  THEN CHOOSE j \in 1..Len(table) :
         /\ table[j].post_id = postId
         /\ \A k \in 1..(j - 1) : table[k].post_id # postId
  ELSE 0

\* the id savePost returns
savedPostId(table, postId) ==
  IF existingIndex(table, postId) > 0 THEN existingIndex(table, postId)
  ELSE Len(table) + 1

\* savePost(post): with a pool the INSERT ... ON CONFLICT query, which is
\* rejected when ok is FALSE; without one the lists of inMemoryData, whose
\* read throws a TypeError while inMemoryData is undefined
DbSavePost(postId, ok) ==
  /\ dbIsInitialized
  /\ IF pool # "null"
     THEN /\ posts' = IF ok THEN savePost(posts, postId) ELSE posts
          /\ dbCall' = IF ok THEN DbReturns("savePost", TRUE, savedPostId(posts, postId), <<>>)
                       ELSE DbThrows("savePost", TRUE)
          /\ UNCHANGED inMemoryData
     ELSE /\ inMemoryData' =
               IF inMemoryData.defined
               THEN [inMemoryData EXCEPT !.posts = savePost(@, postId)]
               ELSE inMemoryData
          /\ dbCall' =
               IF inMemoryData.defined
               THEN DbReturns("savePost", FALSE, savedPostId(inMemoryData.posts, postId), <<>>)
               ELSE DbThrows("savePost", FALSE)
          /\ UNCHANGED posts
  /\ UNCHANGED <<sentimentServiceVars, configVars, isRunning, cpc, keyIndex, pending,
                 totalCollected, consumed, windowRequests, sentimentData, faults,
                 cycles, lastCall, runLog, pool, dbIsInitialized, cacheVars, aiVars,
                 health>>

\* the analysis stored with a record by the callers of DatabaseService below
storedAnalysis == [sentiment_label |-> "NEUTRAL"]

\* saveSentimentData(data): with a pool the INSERT query, without one a push
\* on inMemoryData.sentimentData
DbSaveSentimentData(postId, ok) ==
  /\ dbIsInitialized
  /\ Len(sentimentData) < MaxRecords
  /\ Len(inMemoryData.sentimentData) < MaxRecords
  /\ IF pool # "null"
     THEN /\ sentimentData' =
               IF ok THEN saveSentimentData(sentimentData, postId, storedAnalysis)
               ELSE sentimentData
          /\ dbCall' = IF ok THEN DbReturns("saveSentimentData", TRUE, Len(sentimentData) + 1, <<>>)
                       ELSE DbThrows("saveSentimentData", TRUE)
          /\ UNCHANGED inMemoryData
     ELSE /\ inMemoryData' =
               IF inMemoryData.defined
               THEN [inMemoryData EXCEPT
                       !.sentimentData = saveSentimentData(@, postId, storedAnalysis)]
               ELSE inMemoryData
          /\ dbCall' =
               IF inMemoryData.defined
               THEN DbReturns("saveSentimentData", FALSE,
                              Len(inMemoryData.sentimentData) + 1, <<>>)
               ELSE DbThrows("saveSentimentData", FALSE)
          /\ UNCHANGED sentimentData
  /\ UNCHANGED <<sentimentServiceVars, configVars, isRunning, cpc, keyIndex, pending,
                 totalCollected, consumed, windowRequests, posts, faults,
                 cycles, lastCall, runLog, pool, dbIsInitialized, cacheVars, aiVars,
                 health>>

\* ORDER BY created_at DESC
newestFirst(table) == [j \in 1..Len(table) |-> table[Len(table) + 1 - j]]

\* getRecentSentimentData(hours), all stored records being recent: the rows
\* of the SELECT, or the list of inMemoryData; an error is caught and gives []
DbGetRecentSentimentData(ok) ==
  /\ dbIsInitialized
  /\ dbCall' =
       IF pool # "null"
       THEN DbReturns("getRecentSentimentData", TRUE, 0,
                      IF ok THEN newestFirst(sentimentData) ELSE <<>>)
       ELSE DbReturns("getRecentSentimentData", FALSE, 0, inMemoryData.sentimentData)
  /\ UNCHANGED <<sentimentServiceVars, collectVars, pool, dbIsInitialized,
                 inMemoryData, cacheVars, aiVars, health>>

(***************************************************************************)
(* JSON.stringify and JSON.parse on the values stored in the cache:        *)
(* natural numbers, booleans, null, strings of letters, and arrays of      *)
(* those.                                                                  *)
(***************************************************************************)
DecimalDigits == <<"0","1","2","3","4","5","6","7","8","9">>

RECURSIVE digitsOf(_)
digitsOf(k) ==
  IF k < 10 THEN <<DecimalDigits[k + 1]>>
  ELSE digitsOf(k \div 10) \o <<DecimalDigits[(k % 10) + 1]>>

RECURSIVE JSONstringify(_)
RECURSIVE stringifyItems(_)
stringifyItems(items) ==
  IF items = <<>> THEN <<>>
  ELSE IF Len(items) = 1 THEN JSONstringify(items[1])
  ELSE JSONstringify(items[1]) \o <<",">> \o stringifyItems(Tail(items))

JSONstringify(v) ==
  CASE v.type = "number" -> digitsOf(v.num)
    [] v.type = "boolean" ->
         IF v.num = 1 THEN <<"t","r","u","e">> ELSE <<"f","a","l","s","e">>
    [] v.type = "string" -> <<"\"">> \o v.chars \o <<"\"">>
    [] v.type = "array" -> <<"[">> \o stringifyItems(v.items) \o <<"]">>
    [] OTHER -> <<"n","u","l","l">>

NoParse == [ok |-> FALSE, value |-> Undefined]

isDigit(c) == \E k \in 1..10 : DecimalDigits[k] = c

digitValue(c) == (CHOOSE k \in 1..10 : DecimalDigits[k] = c) - 1

RECURSIVE numberOf(_, _)
numberOf(s, acc) ==
  IF s = <<>> THEN acc
  ELSE numberOf(Tail(s), 10 * acc + digitValue(Head(s)))

\* the pieces of s between its commas
RECURSIVE splitComma(_, _, _, _)
splitComma(s, j, done, piece) ==
  IF j > Len(s) THEN Append(done, piece)
  ELSE IF s[j] = "," THEN splitComma(s, j + 1, Append(done, piece), <<>>)
  ELSE splitComma(s, j + 1, done, Append(piece, s[j]))

\* a literal, a number or a string
parseScalar(s) ==
  IF s = <<"n","u","l","l">> THEN [ok |-> TRUE, value |-> Null]
  ELSE IF s = <<"t","r","u","e">> THEN [ok |-> TRUE, value |-> Bool(TRUE)]
  ELSE IF s = <<"f","a","l","s","e">> THEN [ok |-> TRUE, value |-> Bool(FALSE)]
  ELSE IF /\ s # <<>>
          /\ \A j \in 1..Len(s) : isDigit(s[j])
          /\ (Len(s) = 1 \/ s[1] # "0")
       THEN [ok |-> TRUE, value |-> NumV(numberOf(s, 0))]
  ELSE IF /\ Len(s) >= 2
          /\ s[1] = "\""
          /\ s[Len(s)] = "\""
          /\ \A j \in 2..(Len(s) - 1) : s[j] # "\""
       THEN [ok |-> TRUE, value |-> Str(SubSeq(s, 2, Len(s) - 1))]
  ELSE NoParse

\* JSON.parse(s): ok is FALSE where it throws a SyntaxError
JSONparse(s) ==
  IF Len(s) >= 2 /\ s[1] = "[" /\ s[Len(s)] = "]"
  THEN LET inner == SubSeq(s, 2, Len(s) - 1)
           parts == IF inner = <<>> THEN <<>> ELSE splitComma(inner, 1, <<>>, <<>>)
           parsed == [j \in 1..Len(parts) |-> parseScalar(parts[j])]
       IN  IF \A j \in 1..Len(parts) : parsed[j].ok
           THEN [ok |-> TRUE, value |-> Arr([j \in 1..Len(parts) |-> parsed[j].value])]
           ELSE NoParse
  ELSE parseScalar(s)

(***************************************************************************)
(* CacheService.  nodeCache is the NodeCache object (made is FALSE while   *)
(* the field is null) with the value it holds under each key, undefined    *)
(* where it holds none; redisData is what the Redis server holds under     *)
(* each key.  A command sent to Redis succeeds or is rejected as the       *)
(* connection decides.  written remembers, per key, the value of the last  *)
(* set that returned true, until the entry is deleted or expires or the    *)
(* service changes its backend.                                            *)
(***************************************************************************)
\* the cache key of the insight route that is followed
CacheKeys == {"recommendations"}

NoEntry == [present |-> FALSE, chars |-> <<>>]

NotWritten == [set |-> FALSE, value |-> Undefined]

noNodeCache == [made |-> FALSE, data |-> [k \in CacheKeys |-> Undefined]]

\* new NodeCache({...}): an empty cache
newNodeCache == [made |-> TRUE, data |-> [k \in CacheKeys |-> Undefined]]

NoCacheCall == [op |-> "none", key |-> "none", value |-> Undefined, ok |-> FALSE]

NoGetOrSet ==
  [pc |-> "idle", key |-> "none", cached |-> FALSE, fetches |-> 0, threw |-> FALSE,
   outcome |-> "none", value |-> Undefined]

cacheServiceVars == <<sentimentServiceVars, collectVars, dbVars, aiVars, health>>

\* new CacheService()
CacheCreated ==
  /\ useRedis = FALSE
  /\ redisClient = "null"
  /\ nodeCache = noNodeCache
  /\ redisData = [k \in CacheKeys |-> NoEntry]
  /\ cacheIsInitialized = FALSE
  /\ cacheCall = NoCacheCall
  /\ gos = NoGetOrSet
  /\ written = [k \in CacheKeys |-> NotWritten]

\* initialize(): without REDIS_URL and REDIS_HOST the in-memory cache; with
\* one of them initializeRedis(), whose connect() succeeds, the 'connect'
\* handler setting useRedis, or is rejected, the catch block of initialize()
\* then calling initializeNodeCache()
CacheInitialize(redisConfigured, connected) ==
  /\ ~cacheIsInitialized
  /\ cacheIsInitialized' = TRUE
  /\ redisClient' = IF redisConfigured THEN "client" ELSE "null"
  /\ useRedis' = (redisConfigured /\ connected)
  /\ nodeCache' = IF redisConfigured /\ connected THEN nodeCache ELSE newNodeCache
  /\ UNCHANGED <<cacheServiceVars, redisData, cacheCall, gos, written>>

\* the 'error' handler of the Redis client: useRedis = false and
\* initializeNodeCache(), which makes a new, empty NodeCache
RedisError ==
  /\ redisClient = "client"
  /\ useRedis' = FALSE
  /\ nodeCache' = newNodeCache
  /\ written' = [k \in CacheKeys |-> NotWritten]
  /\ UNCHANGED <<cacheServiceVars, redisClient, redisData, cacheIsInitialized,
                 cacheCall, gos>>

\* the 'connect' handler of the Redis client, on a reconnection
RedisConnect ==
  /\ redisClient = "client"
  /\ ~useRedis
  /\ useRedis' = TRUE
  /\ written' = [k \in CacheKeys |-> NotWritten]
  /\ UNCHANGED <<cacheServiceVars, redisClient, nodeCache, redisData,
                 cacheIsInitialized, cacheCall, gos>>

\* what get(key) returns: from Redis `value ? JSON.parse(value) : null`, null
\* also where the command is rejected or JSON.parse throws (the catch block);
\* from the NodeCache `this.nodeCache.get(key) || null`
get(key, ok) ==
  IF useRedis /\ redisClient # "null"
  THEN IF ok /\ redisData[key].present /\ redisData[key].chars # <<>>
            /\ JSONparse(redisData[key].chars).ok
       THEN JSONparse(redisData[key].chars).value
       ELSE Null
  ELSE IF nodeCache.made
       THEN IF truthy(nodeCache.data[key]) THEN nodeCache.data[key] ELSE Null
       ELSE Null

\* what set(key, value, ttlSeconds) returns
setResult(ok) ==
  IF useRedis /\ redisClient # "null" THEN ok
  ELSE nodeCache.made

\* the record of a get(key): ok is FALSE where the catch block was taken
getCall(key, ok) ==
  [op |-> "get", key |-> key, value |-> get(key, ok),
   ok |-> (useRedis /\ redisClient # "null") => ok]

\* the record of a set(key, value, ttlSeconds), ok being what it returns
setCall(key, value, ok) ==
  [op |-> "set", key |-> key, value |-> value, ok |-> setResult(ok)]

\* await cacheService.get(key)
Get(key, ok) ==
  /\ cacheIsInitialized
  /\ cacheCall' = getCall(key, ok)
  /\ UNCHANGED <<cacheServiceVars, useRedis, redisClient, nodeCache, redisData,
                 cacheIsInitialized, gos, written>>

\* set(key, value, ttlSeconds) on the Redis backend: setEx of the
\* JSON.stringify of the value, rejected when ok is FALSE
redisSet(key, value, ok) ==
  IF ok THEN [redisData EXCEPT ![key] = [present |-> TRUE, chars |-> JSONstringify(value)]]
  ELSE redisData

\* set(key, value, ttlSeconds) on the NodeCache: the value itself is kept
\* (useClones: false)
nodeSet(key, value) == [nodeCache EXCEPT !.data[key] = value]

\* the stores and the memory of the last write after set(key, value)
SetStores(key, value, ok) ==
  /\ IF useRedis /\ redisClient # "null"
     THEN redisData' = redisSet(key, value, ok) /\ UNCHANGED nodeCache
     ELSE /\ nodeCache' = IF nodeCache.made THEN nodeSet(key, value) ELSE nodeCache
          /\ UNCHANGED redisData
  /\ written' = IF setResult(ok)
                THEN [written EXCEPT ![key] = [set |-> TRUE, value |-> value]]
                ELSE written

\* await cacheService.set(key, value, ttlSeconds)
Set(key, value, ok) ==
  /\ cacheIsInitialized
  /\ SetStores(key, value, ok)
  /\ cacheCall' = setCall(key, value, ok)
  /\ UNCHANGED <<cacheServiceVars, useRedis, redisClient, cacheIsInitialized, gos>>

\* await cacheService.del(key)
Del(key, ok) ==
  /\ cacheIsInitialized
  /\ IF useRedis /\ redisClient # "null"
     THEN /\ redisData' = IF ok THEN [redisData EXCEPT ![key] = NoEntry] ELSE redisData
          /\ cacheCall' = [op |-> "del", key |-> key, value |-> Undefined, ok |-> ok]
          /\ written' = IF ok THEN [written EXCEPT ![key] = NotWritten] ELSE written
          /\ UNCHANGED nodeCache
     ELSE /\ nodeCache' = IF nodeCache.made
                          THEN [nodeCache EXCEPT !.data[key] = Undefined]
                          ELSE nodeCache
          /\ cacheCall' = [op |-> "del", key |-> key, value |-> Undefined,
                           ok |-> nodeCache.made /\ nodeCache.data[key] # Undefined]
          /\ written' = [written EXCEPT ![key] = NotWritten]
          /\ UNCHANGED redisData
  /\ UNCHANGED <<cacheServiceVars, useRedis, redisClient, cacheIsInitialized, gos>>

\* the time to live of the entry under key has passed in the backend in use
Expires(key) ==
  /\ written[key].set
  /\ IF useRedis /\ redisClient # "null"
     THEN redisData' = [redisData EXCEPT ![key] = NoEntry] /\ UNCHANGED nodeCache
     ELSE nodeCache' = [nodeCache EXCEPT !.data[key] = Undefined] /\ UNCHANGED redisData
  /\ written' = [written EXCEPT ![key] = NotWritten]
  /\ UNCHANGED <<cacheServiceVars, useRedis, redisClient, cacheIsInitialized,
                 cacheCall, gos>>

\* the backend in use holds an entry under key
hasEntry(key) ==
  IF useRedis /\ redisClient # "null" THEN redisData[key].present
  ELSE nodeCache.made /\ nodeCache.data[key] # Undefined

\* getOrSet(key, fetchFunction, ttlSeconds) up to its return or to the await
\* of fetchFunction(): `value = await this.get(key)`, and where that is null
\* the call of fetchFunction
GetOrSet(key, ok) ==
  /\ cacheIsInitialized
  /\ gos.pc \in {"idle", "done"}
  /\ LET value == get(key, ok)
     IN  gos' = IF value = Null
                THEN [pc |-> "fetch", key |-> key, cached |-> hasEntry(key),
                      fetches |-> 1, threw |-> FALSE, outcome |-> "none",
                      value |-> Undefined]
                ELSE [pc |-> "done", key |-> key, cached |-> hasEntry(key),
                      fetches |-> 0, threw |-> FALSE, outcome |-> "returned",
                      value |-> value]
  /\ cacheCall' = getCall(key, ok)
  /\ UNCHANGED <<cacheServiceVars, useRedis, redisClient, nodeCache, redisData,
                 cacheIsInitialized, written>>

\* the promise of fetchFunction() is fulfilled with value: a value other
\* than null and undefined is set in the cache, and the value is returned
FetchFulfilled(value, ok) ==
  /\ gos.pc = "fetch"
  /\ IF value.type \notin {"null", "undefined"}
     THEN SetStores(gos.key, value, ok) /\ cacheCall' = setCall(gos.key, value, ok)
     ELSE UNCHANGED <<nodeCache, redisData, written, cacheCall>>
  /\ gos' = [gos EXCEPT !.pc = "done", !.outcome = "returned", !.value = value]
  /\ UNCHANGED <<cacheServiceVars, useRedis, redisClient, cacheIsInitialized>>

\* the promise of fetchFunction() is rejected: the catch block of getOrSet
\* calls fetchFunction() once more
FetchRejected ==
  /\ gos.pc = "fetch"
  /\ gos' = [gos EXCEPT !.pc = "refetch", !.threw = TRUE, !.fetches = @ + 1]
  /\ UNCHANGED <<cacheServiceVars, useRedis, redisClient, nodeCache, redisData,
                 cacheIsInitialized, cacheCall, written>>

\* the promise of the second fetchFunction() settles: its value is returned,
\* or null when it is rejected too
RefetchSettled(fulfilled, value) ==
  /\ gos.pc = "refetch"
  /\ gos' = [gos EXCEPT !.pc = "done", !.outcome = "returned",
                        !.value = IF fulfilled THEN value ELSE Null]
  /\ UNCHANGED <<cacheServiceVars, useRedis, redisClient, nodeCache, redisData,
                 cacheIsInitialized, cacheCall, written>>

(***************************************************************************)
(* OpenAIService.  A generate method runs to its return or to the await of *)
(* client.chat.completions.create, and from there to its return.           *)
(***************************************************************************)
GenerateMethods ==
  {"generateRecommendations", "generateExecutiveBrief", "generateStrategicInsights",
   "generateROIAnalysis", "generateOutreachRecommendations"}

\* getMockRecommendations(), getMockExecutiveBrief(), ...: the literal of the
\* method
mockResponse(method) == [kind |-> "mock", method |-> method, json |-> Undefined]

parsedResponse(method, json) == [kind |-> "parsed", method |-> method, json |-> json]

NoAiCall ==
  [method |-> "none", pc |-> "idle", data |-> Undefined, called |-> FALSE,
   failure |-> "none", outcome |-> "none", value |-> mockResponse("none")]

\* new OpenAIService(): the constructor calls initialize(), which leaves the
\* service uninitialized without OPENAI_API_KEY or when new OpenAI() throws
OpenAICreated(keySet, constructed) ==
  /\ aiIsInitialized = (keySet /\ constructed)
  /\ client = IF keySet /\ constructed THEN "client" ELSE "null"
  /\ aiCall = NoAiCall

\* build...Prompt(sentimentData) throws a TypeError: sentimentData.length of
\* undefined or null; sentimentData.reduce of a non-empty value that is no
\* array (recommendations, executive brief); sentimentData.map of a value
\* that is no array (recommendations)
promptThrows(method, data) ==
  \/ data.type \in {"undefined", "null"}
  \/ /\ data.type = "string"
     /\ data.chars # <<>>
     /\ method \in {"generateRecommendations", "generateExecutiveBrief"}
  \/ /\ data.type # "array"
     /\ method = "generateRecommendations"

\* the catch block of a generate method
AiCaught(method, data, called, failure) ==
  [method |-> method, pc |-> "done", data |-> data, called |-> called,
   failure |-> failure, outcome |-> "returned", value |-> mockResponse(method)]

\* generate...(sentimentData) up to its return or its await
Generate(method, data) ==
  /\ aiCall.pc \in {"idle", "done"}
  /\ aiCall' =
       IF ~aiIsInitialized
       THEN AiCaught(method, data, FALSE, "notInitialized")
       ELSE IF promptThrows(method, data)
       THEN AiCaught(method, data, FALSE, "prompt")
       ELSE [method |-> method, pc |-> "await", data |-> data, called |-> TRUE,
             failure |-> "none", outcome |-> "none", value |-> mockResponse("none")]
  /\ UNCHANGED <<sentimentServiceVars, collectVars, dbVars, cacheVars, health,
                 aiIsInitialized, client>>

\* CompletionSettled without the catch block around JSON.parse
CompletionSettledNoCatch(how, text) ==
  /\ aiCall.pc = "await"
  /\ aiCall' =
       IF how = "rejected"
       THEN AiCaught(aiCall.method, aiCall.data, TRUE, "client")
       ELSE IF how = "malformed"
       THEN AiCaught(aiCall.method, aiCall.data, TRUE, "malformed")
       ELSE IF ~JSONparse(text).ok
       THEN [aiCall EXCEPT !.pc = "done", !.failure = "parse", !.outcome = "threw"]
       ELSE [aiCall EXCEPT !.pc = "done", !.outcome = "returned",
                           !.value = parsedResponse(aiCall.method, JSONparse(text).value)]
  /\ UNCHANGED <<sentimentServiceVars, collectVars, dbVars, cacheVars, health,
                 aiIsInitialized, client>>

\* the promise of client.chat.completions.create settles: it is rejected; or
\* the completion has no choices[0].message (a TypeError); or its content is
\* the given text, of which JSON.parse is returned, the mock response where
\* JSON.parse throws
CompletionSettled(how, text) ==
  /\ aiCall.pc = "await"
  /\ aiCall' =
       IF how = "rejected"
       THEN AiCaught(aiCall.method, aiCall.data, TRUE, "client")
       ELSE IF how = "malformed"
       THEN AiCaught(aiCall.method, aiCall.data, TRUE, "malformed")
       ELSE IF ~JSONparse(text).ok
       THEN AiCaught(aiCall.method, aiCall.data, TRUE, "parse")
       ELSE [aiCall EXCEPT !.pc = "done", !.outcome = "returned",
                           !.value = parsedResponse(aiCall.method, JSONparse(text).value)]
  /\ UNCHANGED <<sentimentServiceVars, collectVars, dbVars, cacheVars, health,
                 aiIsInitialized, client>>

(***************************************************************************)
(* GET /api/health.  The handler awaits databaseService.isHealthy(), then  *)
(* cacheService.isHealthy(), then reads dataCollectionService.isRunning    *)
(* and answers.                                                            *)
(***************************************************************************)
NoHealth ==
  [pc |-> "idle", database |-> FALSE, cache |-> FALSE, dataCollection |-> FALSE,
   status |-> "none"]

\* DatabaseService.isHealthy(): with a pool whether 'SELECT 1' succeeds,
\* without one this.isInitialized
databaseIsHealthy(ok) == IF pool # "null" THEN ok ELSE dbIsInitialized

\* CacheService.isHealthy(): on Redis whether ping() succeeds, else whether
\* there is a NodeCache
cacheIsHealthy(ok) ==
  IF useRedis /\ redisClient # "null" THEN ok ELSE nodeCache.made

\* the request arrives: databaseService.isHealthy() is called and awaited
HealthRequest ==
  /\ dbIsInitialized
  /\ cacheIsInitialized
  /\ health.pc \in {"idle", "done"}
  /\ health' = [NoHealth EXCEPT !.pc = "database"]
  /\ UNCHANGED <<sentimentServiceVars, collectVars, dbVars, cacheVars, aiVars>>

\* isHealthy() of the database has settled; cacheService.isHealthy() is
\* called and awaited
HealthDatabase(ok) ==
  /\ health.pc = "database"
  /\ health' = [health EXCEPT !.pc = "cache", !.database = databaseIsHealthy(ok)]
  /\ UNCHANGED <<sentimentServiceVars, collectVars, dbVars, cacheVars, aiVars>>

\* HealthCache reading the method isRunning() in place of the flag: a
\* function is truthy
HealthCacheReadsMethod(ok) ==
  /\ health.pc = "cache"
  /\ LET cache == cacheIsHealthy(ok)
     IN  health' = [pc |-> "done", database |-> health.database, cache |-> cache,
                    dataCollection |-> TRUE,
                    status |-> IF health.database /\ cache
                               THEN "healthy" ELSE "degraded"]
  /\ UNCHANGED <<sentimentServiceVars, collectVars, dbVars, cacheVars, aiVars>>

\* isHealthy() of the cache has settled; dataCollectionService.isRunning is
\* read (the flag set in the constructor, which hides the method of that
\* name), status is 'healthy' when the three values are all true and
\* 'degraded' otherwise, and the answer is sent
HealthCache(ok) ==
  /\ health.pc = "cache"
  /\ LET cache == cacheIsHealthy(ok)
     IN  health' = [pc |-> "done", database |-> health.database, cache |-> cache,
                    dataCollection |-> isRunning,
                    status |-> IF health.database /\ cache /\ isRunning
                               THEN "healthy" ELSE "degraded"]
  /\ UNCHANGED <<sentimentServiceVars, collectVars, dbVars, cacheVars, aiVars>>

\* no database, cache, OpenAI service and health request take part
NoPlatform ==
  /\ DatabaseCreated
  /\ CacheCreated
  /\ OpenAICreated(FALSE, TRUE)
  /\ health = NoHealth

(***************************************************************************)
(* Specifications.                                                         *)
(***************************************************************************)
\* the scorer on the explored texts
InitScore ==
  /\ NoPlatform
  /\ Constructed([set |-> FALSE, value |-> 0])
  /\ NoCollector
  /\ arg \in {Str(t) : t \in ScoreInputs}
  /\ arg2 = Undefined

NextScore ==
  \/ CallCalculateSentimentScore
  \/ CallAnalyzeSentiment

SpecScore == InitScore /\ [][NextScore]_vars

\* every public function on well-formed and malformed arguments
CallValues ==
  {Null, Undefined, NumV(42), Str(<<>>),
   Str(<<"T","e","s","l","a"," ","i","s"," ","g","r","e","a","t","!">>),
   Arr(<<>>), Arr(<<Str(<<"b","a","d">>)>>), Arr(<<Null, NumV(42)>>)}

CallSecondArgs ==
  {Undefined, Null, NumV(1), NumV(-1), Str(<<"t","e","s","l","a">>),
   Arr(<<>>), Arr(<<Str(<<"t","e","s","l","a">>)>>),
   Arr(<<Str(<<"F","o","r","d">>), NumV(42)>>)}

InitCalls ==
  /\ NoPlatform
  /\ Created([set |-> FALSE, value |-> 0])
  /\ NoCollector
  /\ arg \in CallValues
  /\ arg2 \in CallSecondArgs

NextCalls ==
  \/ Initialize
  \/ CallPreprocessText
  \/ CallCalculateSentimentScore
  \/ CallAnalyzeSentiment
  \/ CallExtractBrandMentions
  \/ CallExtractKeywords
  \/ CallGetEmotionAnalysis
  \/ CallAnalyzeBatch
  \/ \E j \in 1..MaxTexts : Settle(j)
  \/ Resume

SpecCalls == InitCalls /\ [][NextCalls]_vars

\* analyzeBatch on arrays of texts, under every BATCH_SIZE setting
BatchItems ==
  {Str(<<"l","o","v","e">>), Str(<<"b","a","d","!">>), Null}

RECURSIVE SeqsUpTo(_, _)
SeqsUpTo(S, n) ==
  IF n = 0 THEN {<<>>}
  ELSE LET shorter == SeqsUpTo(S, n - 1)
       IN  shorter \cup {Append(xs, x) : xs \in shorter, x \in S}

InitBatch ==
  /\ NoPlatform
  /\ \E env \in EnvSettings : Constructed(env)
  /\ NoCollector
  /\ arg \in {Arr(xs) : xs \in SeqsUpTo(BatchItems, MaxTexts)}
  /\ arg2 \in {Undefined, NumV(1), NumV(2)}

NextBatch ==
  \/ CallAnalyzeBatch
  \/ \E j \in 1..MaxTexts : Settle(j)
  \/ Resume

SpecBatch == InitBatch /\ [][NextBatch]_vars

\* the promise of some pending analyzeSentiment call of the batch is fulfilled
SomeCallSettles ==
  /\ pc = "await"
  /\ \E j \in 1..Len(batch) :
       /\ callState[j] = "pending"
       /\ callState' = [callState EXCEPT ![j] = "fulfilled"]

\* analyzeSentiment is an async function without an await, so each promise
\* of a batch is fulfilled, and analyzeBatch is resumed once Promise.all is
SpecBatchFair ==
  InitBatch /\ [][NextBatch]_vars /\ WF_callState(SomeCallSettles) /\ WF_vars(Resume)

\* extractKeywords on texts of up to MaxWords words: two ordinary words, a
\* word of 3 characters, a number, and the two names wordFreq inherits
KeywordVocabulary ==
  {<<"l","o","v","e">>, <<"c","a","t","s">>, <<"b","u","g">>, <<"2","0","2","4">>, ConstructorKey, ProtoKey}

InitKeywords ==
  /\ NoPlatform
  /\ Constructed([set |-> FALSE, value |-> 0])
  /\ NoCollector
  /\ arg \in {Str(Join(ws)) : ws \in SeqsUpTo(KeywordVocabulary, MaxWords)}
  /\ arg2 \in {Undefined} \cup {NumV(k) : k \in 0..MaxKeep}

NextKeywords == CallExtractKeywords

SpecKeywords == InitKeywords /\ [][NextKeywords]_vars

\* getEmotionAnalysis on texts of up to MaxWords words: keywords of five of
\* the six categories, a word that contains a keyword, and a word that
\* matches nothing
EmotionVocabulary ==
  {<<"h","a","p","p","y">>,
   <<"e","x","c","i","t","e","d">>,
   <<"a","n","g","r","y">>,
   <<"s","c","a","r","e","d">>,
   <<"s","a","d">>,
   <<"t","r","u","s","t">>,
   <<"m","a","d","e">>,
   <<"c","a","t">>}

InitEmotion ==
  /\ NoPlatform
  /\ Constructed([set |-> FALSE, value |-> 0])
  /\ NoCollector
  /\ arg \in {Str(Join(ws)) : ws \in SeqsUpTo(EmotionVocabulary, MaxWords)}
  /\ arg2 = Undefined

NextEmotion == CallGetEmotionAnalysis

SpecEmotion == InitEmotion /\ [][NextEmotion]_vars

\* collection cycles over the same API content: a response holds up to two
\* items, of which "a" and "b" mention a target brand and "c" does not
ItemA == [id |-> "a", content |-> <<"T","e","s","l","a"," ","i","s"," ","g","r","e","a","t">>]
ItemB == [id |-> "b", content |-> <<"b","a","d"," ","z","u","n","t","r","a"," ","b","u","g">>]
ItemC == [id |-> "c", content |-> <<"n","i","c","e"," ","c","a","t">>]

\* the explored configurations: what the API returns for every subreddit or
\* keyword, which credentials are set, and NEWS_KEYWORDS
CollectConfigs ==
  {[credentials |-> c, items |-> f, keywords |-> <<"Tesla">>] :
     c \in SUBSET Sources, f \in {<<ItemA>>, <<ItemC, ItemA>>}}
  \cup {[credentials |-> c, items |-> <<ItemA, ItemB>>,
         keywords |-> <<"Tesla", "Elon Musk">>] :
          c \in {{"news"}, {"reddit", "youtube"}, {"news", "youtube"}}}
  \cup {[credentials |-> Sources, items |-> <<ItemA>>,
         keywords |-> <<"Tesla", "Elon Musk">>]}

InitCollect ==
  /\ NoPlatform
  /\ Constructed([set |-> FALSE, value |-> 0])
  /\ arg = Undefined
  /\ arg2 = Undefined
  /\ \E c \in CollectConfigs :
       CollectorCreated(c.credentials, <<"cars">>, c.keywords,
                        [s \in Sources |-> c.items])

NextCollect ==
  \/ StartCycle
  \/ \E s \in Sources : Consume(s)
  \/ \E s \in Sources, ok \in BOOLEAN : Request(s, ok)
  \/ \E s \in Sources, ok \in BOOLEAN : SavePost(s, ok)
  \/ \E s \in Sources, ok \in BOOLEAN : SaveSentimentData(s, ok)
  \/ FinishCycle

SpecCollect == InitCollect /\ [][NextCollect]_vars

\* the rate limiters: cycles of one source with credentials, whose API
\* returns nothing that mentions a target brand, under the default lists of
\* subreddits and keywords
InitLimiter ==
  /\ NoPlatform
  /\ Constructed([set |-> FALSE, value |-> 0])
  /\ arg = Undefined
  /\ arg2 = Undefined
  /\ \E s \in Sources, items \in {<<>>, <<ItemC>>} :
       CollectorCreated({s},
                        <<"technology", "news", "cars", "electricvehicles">>,
                        <<"Tesla", "Elon Musk", "electric vehicle">>,
                        [x \in Sources |-> items])

NextLimiter ==
  \/ StartCycle
  \/ \E s \in Sources : Consume(s)
  \/ \E s \in Sources, ok \in BOOLEAN : Request(s, ok)
  \/ FinishCycle
  \/ \E s \in Sources : WindowExpires(s)

SpecLimiter == InitLimiter /\ [][NextLimiter]_vars

\* repeated calls of the four functions on two texts and on an array of
\* them, before and after initialize(), with BATCH_SIZE unset or set
PureTexts == {Str(<<"l","o","v","e"," ","l","o","v","e"," ","b","a","d">>), Str(<<"s","a","d"," ","m","a","d","e">>)}

PureArgs ==
  PureTexts \cup {Arr(<<Str(<<"l","o","v","e"," ","l","o","v","e"," ","b","a","d">>), Str(<<"s","a","d"," ","m","a","d","e">>), Str(<<"l","o","v","e"," ","l","o","v","e"," ","b","a","d">>)>>)}

InitPure ==
  /\ NoPlatform
  /\ \E env \in {[set |-> FALSE, value |-> 0], [set |-> TRUE, value |-> 2]} :
       Created(env)
  /\ NoCollector
  /\ arg \in PureArgs
  /\ arg2 = Undefined

NextPure ==
  \/ Initialize
  \/ CallAnalyzeSentiment
  \/ CallExtractKeywords
  \/ CallGetEmotionAnalysis
  \/ CallAnalyzeBatch
  \/ \E j \in 1..MaxTexts : Settle(j)
  \/ Resume
  \/ \E next \in PureArgs : Complete(next)
  \/ \E f \in {"analyzeSentiment", "extractKeywords", "getEmotionAnalysis"},
        text \in PureTexts : InterleavedCall(f, text)

SpecPure == InitPure /\ [][NextPure]_vars

\* the database service from its construction: initialize() with each of
\* its outcomes, then saves of two posts and reads
DbPostIds == {"p1", "p2"}

InitDatabase ==
  /\ Constructed([set |-> FALSE, value |-> 0])
  /\ arg = Undefined
  /\ arg2 = Undefined
  /\ NoCollector
  /\ NoPlatform

NextDatabase ==
  \/ \E how \in {"ok", "query", "createTables"} : DbInitialize(how)
  \/ \E postId \in DbPostIds, ok \in BOOLEAN : DbSavePost(postId, ok)
  \/ \E postId \in DbPostIds, ok \in BOOLEAN : DbSaveSentimentData(postId, ok)
  \/ \E ok \in BOOLEAN : DbGetRecentSentimentData(ok)

SpecDatabase == InitDatabase /\ [][NextDatabase]_vars

\* the server from startServer(): the database and then the cache are
\* initialized with each of their outcomes, after which the cron schedule
\* starts collection cycles of the News collector and health requests are
\* answered, while the Redis connection may fail and come back
ServicesInitialized == dbIsInitialized /\ cacheIsInitialized

InitHealth ==
  /\ NoPlatform
  /\ Constructed([set |-> FALSE, value |-> 0])
  /\ arg = Undefined
  /\ arg2 = Undefined
  /\ CollectorCreated({"news"}, <<"cars">>, <<"Tesla">>, [s \in Sources |-> <<ItemA>>])

NextHealth ==
  \/ \E how \in {"ok", "query", "createTables"} : DbInitialize(how)
  \/ /\ dbIsInitialized
     /\ \E redisConfigured \in BOOLEAN, connected \in BOOLEAN :
          CacheInitialize(redisConfigured, connected)
  \/ RedisError
  \/ RedisConnect
  \/ ServicesInitialized /\ CronTick
  \/ \E s \in Sources : Consume(s)
  \/ \E s \in Sources, ok \in BOOLEAN : Request(s, ok)
  \/ \E s \in Sources, ok \in BOOLEAN : SavePost(s, ok)
  \/ \E s \in Sources, ok \in BOOLEAN : SaveSentimentData(s, ok)
  \/ FinishCycle
  \/ HealthRequest
  \/ \E ok \in BOOLEAN : HealthDatabase(ok)
  \/ \E ok \in BOOLEAN : HealthCache(ok)

SpecHealth == InitHealth /\ [][NextHealth]_vars

\* the cache service from its construction, with and without Redis, the
\* connection failing and coming back: gets, sets and deletes of JSON values
\* under the key of an insight route, entries expiring, and getOrSet with
\* a fetch function that is fulfilled or rejected
CacheValues ==
  {NumV(0), NumV(1), Bool(FALSE), Bool(TRUE), Str(<<>>), Str(<<"a">>), Null, Arr(<<>>)}

\* what a fetch function is fulfilled with
FetchValues == {NumV(0), Str(<<"a">>), Null, Undefined}

InitCache ==
  /\ Constructed([set |-> FALSE, value |-> 0])
  /\ arg = Undefined
  /\ arg2 = Undefined
  /\ NoCollector
  /\ NoPlatform

NextCache ==
  \/ \E redisConfigured \in BOOLEAN, connected \in BOOLEAN :
       CacheInitialize(redisConfigured, connected)
  \/ RedisError
  \/ RedisConnect
  \/ \E key \in CacheKeys, ok \in BOOLEAN : Get(key, ok)
  \/ \E key \in CacheKeys, value \in CacheValues, ok \in BOOLEAN : Set(key, value, ok)
  \/ \E key \in CacheKeys, ok \in BOOLEAN : Del(key, ok)
  \/ \E key \in CacheKeys : Expires(key)
  \/ \E key \in CacheKeys, ok \in BOOLEAN : GetOrSet(key, ok)
  \/ \E value \in FetchValues, ok \in BOOLEAN : FetchFulfilled(value, ok)
  \/ FetchRejected
  \/ \E fulfilled \in BOOLEAN, value \in FetchValues : RefetchSettled(fulfilled, value)

SpecCache == InitCache /\ [][NextCache]_vars

\* the generate methods of the OpenAI service, created with and without an
\* API key, on well-formed and malformed sentiment data, the client
\* answering with texts that are and are not JSON
AiData == {Arr(<<>>), Arr(<<NumV(1)>>), Undefined, Str(<<"a">>), NumV(5)}

AiTexts == {<<"[","]">>, <<"[","1","]">>, <<"n","u","l","l">>, <<"{">>, <<>>}

InitOpenAI ==
  /\ Constructed([set |-> FALSE, value |-> 0])
  /\ arg = Undefined
  /\ arg2 = Undefined
  /\ NoCollector
  /\ DatabaseCreated
  /\ CacheCreated
  /\ health = NoHealth
  /\ \E keySet \in BOOLEAN, constructed \in BOOLEAN : OpenAICreated(keySet, constructed)

NextOpenAI ==
  \/ \E method \in GenerateMethods, data \in AiData : Generate(method, data)
  \/ \E how \in {"rejected", "malformed", "content"}, text \in AiTexts :
       CompletionSettled(how, text)

SpecOpenAI == InitOpenAI /\ [][NextOpenAI]_vars

\* collection cycles triggered by the cron schedule and by
\* POST /api/collect-data at any moment
CycleConfigs ==
  {[credentials |-> c, items |-> <<ItemA>>, keywords |-> k] :
     c \in {{}, {"news"}, {"reddit", "youtube"}},
     k \in {<<"Tesla">>, <<"Tesla", "Elon Musk">>}}

InitCycle ==
  /\ NoPlatform
  /\ Constructed([set |-> FALSE, value |-> 0])
  /\ arg = Undefined
  /\ arg2 = Undefined
  /\ \E c \in CycleConfigs :
       CollectorCreated(c.credentials, <<"cars">>, c.keywords,
                        [s \in Sources |-> c.items])

NextCycle ==
  \/ CronTick
  \/ PostCollectData
  \/ \E s \in Sources : Consume(s)
  \/ \E s \in Sources, ok \in BOOLEAN : Request(s, ok)
  \/ \E s \in Sources, ok \in BOOLEAN : SavePost(s, ok)
  \/ \E s \in Sources, ok \in BOOLEAN : SaveSentimentData(s, ok)
  \/ FinishCycle

SpecCycle == InitCycle /\ [][NextCycle]_vars

\* the collector of some source leaves the await it is at: the promise of
\* limiter.consume(), of the API request, of savePost or of
\* saveSentimentData settles and the collector is resumed
Awaits == {"consume", "request", "savePost", "saveSentimentData"}

CollectorResumed ==
  \E s \in Sources :
    /\ cpc[s] \in Awaits
    /\ cpc' \in {[cpc EXCEPT ![s] = at] : at \in (Awaits \cup {"done"}) \ {cpc[s]}}

\* every awaited promise settles: a collector that awaits is eventually
\* resumed, and so is collectAllData once Promise.allSettled is fulfilled
SpecCycleFair ==
  InitCycle /\ [][NextCycle]_vars /\ WF_cpc(CollectorResumed) /\ WF_vars(FinishCycle)

(***************************************************************************)
(* Properties of the scorer (SpecScore).                                   *)
(***************************************************************************)
Scored == fn \in {"calculateSentimentScore", "analyzeSentiment"} /\ outcome = "returned"

\* the score and the confidence of the returned object
returnedScore ==
  IF fn = "analyzeSentiment" THEN result.sentiment_score ELSE result.score

\* the tokens of the text that calculateSentimentScore was given
scoredTokens == split(locals.text)

\* C1: every result of calculateSentimentScore and of analyzeSentiment has
\* its score in [0, 1] and its confidence in [0.3, 0.95], whichever keyword
\* matches and context modifiers apply.
C1_ScoreAndConfidenceInRange ==
  Scored =>
    /\ QLe(Zero, returnedScore) /\ QLe(returnedScore, One)
    /\ QLe(Q(3, 10), result.confidence) /\ QLe(result.confidence, Q(95, 100))

\* a text with keyword matches on which all four modifiers act, scored to
\* a confidence that the upper limit has cut
C1_Witness ==
  /\ fn = "calculateSentimentScore"
  /\ outcome = "returned"
  /\ result.keywords # <<>>
  /\ hasNegation(locals.text)
  /\ hasIntensifier(locals.text)
  /\ includes(locals.text, <<"?">>)
  /\ countChar(locals.text, "!") > 0
  /\ result.confidence = Q(95, 100)

\* C2: the label of a result of calculateSentimentScore is the threshold
\* function of the returned (clamped and rounded) score: POSITIVE iff
\* score >= 0.6, NEGATIVE iff score <= 0.4, NEUTRAL otherwise.
C2_LabelFollowsReturnedScore ==
  (fn = "calculateSentimentScore" /\ outcome = "returned") =>
    result.label = labelOf(result.score)

\* C3: a text none of whose tokens is in the positive, negative or neutral
\* lexicon is scored exactly 0.5 with confidence 0.3.
C3_NoMatchIsNeutralDefault ==
  (/\ Scored
   /\ \A j \in 1..Len(scoredTokens) : keywordType(scoredTokens[j]) = "none") =>
    /\ returnedScore = Half
    /\ result.confidence = Q(3, 10)

\* C4: a text whose tokens are all words of the negative lexicon, none of
\* them a negation word, has a score below 0.5 after the context modifiers.
C4_NegativeWordsScoreBelowHalf ==
  (/\ Scored
   /\ \A j \in 1..Len(scoredTokens) :
         /\ scoredTokens[j] \in negativeKeywords
         /\ scoredTokens[j] \notin negationWords) =>
    QLt(locals.modified, Half)

\* C9: negation inverts at most once: for a text with one, two or more
\* negation words the score after the negation step is 1 - base.
C9_NegationInvertsOnce ==
  (Scored /\ negationWordCount(locals.text) >= 1) =>
    locals.negated = QSub(One, locals.baseScore)

\* a scored text with two negation words and a base score other than 0.5
C9_Witness ==
  /\ Scored
  /\ negationWordCount(locals.text) = 2
  /\ locals.baseScore # Half
  /\ locals.negated = QSub(One, locals.baseScore)

\* C10: analyzeSentiment on a text with k >= 1 exclamation marks pushes the
\* score, when it is not exactly 0.5, away from 0.5 by min(0.2, 0.1 * k).
C10_ExclamationApplied ==
  (/\ fn = "analyzeSentiment"
   /\ arg.type = "string"
   /\ countChar(arg.chars, "!") >= 1
   /\ locals.modified # Half) =>
    result.sentiment_score =
      toFixed3(QMax(Zero, QMin(One, exclamationStep(arg.chars, locals.modified))))

(***************************************************************************)
(* Properties of analyzeBatch (SpecBatch) and of the public functions on   *)
(* malformed arguments (SpecCalls).                                        *)
(***************************************************************************)
\* C5: the results of analyzeBatch are, in input order, the results of
\* analyzeSentiment on the texts: at every moment results is that list for
\* a prefix of the input, and the resolved value is that list for all n
\* texts, under every batch size and order of completion.
C5_ResultsInInputOrder ==
  fn = "analyzeBatch" /\ arg.type = "array" =>
    /\ Len(results) <= Len(arg.items)
    /\ \A k \in 1..Len(results) :
          results[k] = analyzeSentiment(isInitialized, arg.items[k])
    /\ pc = "done" => (outcome = "returned" /\ result = results
                        /\ Len(result) = Len(arg.items))

\* three texts in batches of two, resolved after the second call of the
\* first batch completed before the first
C5_Witness ==
  /\ fn = "analyzeBatch"
  /\ pc = "done"
  /\ batchSize = 2
  /\ Len(arg.items) = 3
  /\ arg.items[1] # arg.items[2]
  /\ completed = <<<<1, 1>>, <<1, 0>>, <<2, 2>>>>
  /\ Len(result) = 3

\* C6: batches are processed one after the other: when a call of a later
\* loop iteration has started, every call of every earlier iteration has
\* completed; inside a batch the calls complete in any order.
C6_BatchesSequential ==
  \A s \in started : \A t \in started :
    t[1] < s[1] => \E m \in 1..Len(completed) : completed[m] = t

\* the second batch has started, with a call still pending, after the
\* calls of the first batch completed in reverse order
C6_Witness ==
  /\ pc = "await"
  /\ iter = 2
  /\ \E j \in 1..Len(batch) : callState[j] = "pending"
  /\ Len(completed) >= 2
  /\ completed[1] = <<1, 1>>
  /\ completed[2] = <<1, 0>>

\* the texts at the 0-based indices j*b .. j*b+b-1 of the input
ConsecutiveBatch(j, b) ==
  SubSeq(arg.items, j * b + 1, Min(j * b + b, Len(arg.items)))

\* C7 as stated: the batch of loop iteration j (from 0) holds the texts
\* j*b .. j*b+b-1 for the batch size b that the caller passes.
C7_CallerBatchSize ==
  (pc = "await" /\ arg2.type = "number") =>
    batch = ConsecutiveBatch(iter - 1, arg2.num)

\* C7 as amended: the batch of loop iteration j holds the texts
\* j*b .. j*b+b-1 for the configured batch size b = this.batchSize >= 1,
\* whatever second argument the caller passes.
C7_ConfiguredBatchSize ==
  (pc = "await" /\ batchSize >= 1) =>
    batch = ConsecutiveBatch(iter - 1, batchSize)

\* the second batch of three texts under BATCH_SIZE 2, the caller having
\* asked for batches of one
C7_Witness ==
  /\ pc = "await"
  /\ iter = 2
  /\ batchSize = 2
  /\ arg2 = NumV(1)
  /\ Len(arg.items) = 3
  /\ batch = <<arg.items[3]>>

\* C8: no public function throws, whatever its arguments.
C8_NoPublicFunctionThrows == outcome # "threw"

(***************************************************************************)
(* Properties of the modifiers, the base formula and the defaults.         *)
(***************************************************************************)
\* C11: analyzeSentiment on a text with a question mark and no exclamation
\* mark pulls the score s reached after the negation and intensifier steps,
\* when it is not exactly 0.5, to (s + 0.5) / 2.
C11_QuestionApplied ==
  (/\ fn = "analyzeSentiment"
   /\ arg.type = "string"
   /\ includes(arg.chars, <<"?">>)
   /\ countChar(arg.chars, "!") = 0
   /\ locals.modified # Half) =>
    result.sentiment_score =
      toFixed3(QMax(Zero, QMin(One, questionStep(arg.chars, locals.modified))))

\* the input of the example
NotGoodText ==
  <<"T","h","i","s"," ","i","s"," ","n","o","t"," ","g","o","o","d"," ","a","t"," ","a","l","l">>

\* the example is the argument of the scoring call
ScoredNotGood ==
  /\ Scored
  /\ arg = Str(NotGoodText)

\* C12 as stated: for "This is not good at all" the token "good" is counted
\* as a positive keyword, the base score is inverted to 1 - base, and the
\* label is NEGATIVE.
C12_GoodCountedAndNegative ==
  ScoredNotGood =>
    /\ \E j \in 1..Len(result.keywords) : result.keywords[j] = <<"g","o","o","d">>
    /\ locals.negated = QSub(One, locals.baseScore)
    /\ (IF fn = "analyzeSentiment" THEN result.sentiment_label ELSE result.label)
         = "NEGATIVE"

\* C12 amended: for "This is not good at all" no token is a keyword of any
\* lexicon, the base score is 0.5, the negation word "not" inverts it to
\* 1 - 0.5 = 0.5, and the result is score 0.5, label NEUTRAL, confidence 0.3.
C12_NoKeywordAndNeutral ==
  ScoredNotGood =>
    /\ result.keywords = <<>>
    /\ locals.baseScore = Half
    /\ hasNegation(locals.text)
    /\ locals.negated = QSub(One, locals.baseScore)
    /\ returnedScore = Half
    /\ (IF fn = "analyzeSentiment" THEN result.sentiment_label ELSE result.label)
         = "NEUTRAL"
    /\ result.confidence = Q(3, 10)

C12_Witness ==
  /\ ScoredNotGood
  /\ fn = "analyzeSentiment"
  /\ locals.words # <<>>

\* the counts of the base formula, taken from the tokens of the scored text:
\* W tokens longer than 2 characters, of which P positive, N negative and U
\* neutral; T2 is twice T = P + N + 0.5 * U
BaseCounts ==
  LET tokens == scoredTokens
      long == {j \in 1..Len(tokens) : Len(tokens[j]) > 2}
      P == Cardinality({j \in long : tokens[j] \in positiveKeywords})
      N == Cardinality({j \in long : tokens[j] \in negativeKeywords})
      U == Cardinality({j \in long : tokens[j] \in neutralKeywords})
  IN  [W |-> Cardinality(long), P |-> P, N |-> N, U |-> U,
       T2 |-> 2 * P + 2 * N + U,
       short |-> Len(tokens) - Cardinality(long)]

\* C13: with at least one lexicon match the base score is
\* 0.8 * P / T + 0.2 * N / T + 0.1 and the confidence is 2 * T / W limited
\* to [0.4, 0.95] (returned rounded to three decimals); tokens of at most 2
\* characters are in none of the counts.
C13_BaseFormula ==
  Scored =>
    LET c == BaseCounts
    IN  c.T2 > 0 =>
          /\ locals.baseScore = Q(16 * c.P + 4 * c.N + c.T2, 10 * c.T2)
          /\ result.confidence =
               toFixed3(QMax(Q(4, 10), QMin(Q(95, 100), Q(c.T2, c.W))))

\* a text with matches in all three lexicons and tokens of at most 2
\* characters, whose confidence neither limit has cut
C13_Witness ==
  /\ Scored
  /\ QLt(Q(4, 10), result.confidence)
  /\ QLt(result.confidence, Q(95, 100))
  /\ LET c == BaseCounts
     IN  c.P > 0 /\ c.N > 0 /\ c.U > 0 /\ c.short > 0

\* the default result with its four values written out
DefaultResult ==
  [sentiment_score |-> Q(1, 2),
   sentiment_label |-> "NEUTRAL",
   confidence |-> Q(3, 10),
   keywords |-> <<>>]

\* C14: analyzeSentiment given null, undefined, a non-string value or the
\* empty string returns exactly the default result, and so does every call
\* made before the service is initialized.
C14_DefaultOnInvalidInput ==
  (/\ fn = "analyzeSentiment"
   /\ (arg.type # "string" \/ arg.chars = <<>> \/ ~isInitialized)) =>
    /\ outcome = "returned"
    /\ result = DefaultResult

\* a call with a text made before initialize()
C14_Witness ==
  /\ fn = "analyzeSentiment"
  /\ ~isInitialized
  /\ arg.type = "string"
  /\ arg.chars # <<>>
  /\ result = DefaultResult

\* C15: analyzeBatch given an argument that is not an array returns the empty
\* sequence, starts no analyzeSentiment call and does not throw.
C15_NonArrayGivesEmpty ==
  (fn = "analyzeBatch" /\ arg.type # "array") =>
    /\ outcome = "returned"
    /\ result = <<>>
    /\ pc = "done"
    /\ started = {}
    /\ completed = <<>>

C15_Witness ==
  /\ fn = "analyzeBatch"
  /\ arg.type = "string"
  /\ arg.chars # <<>>
  /\ outcome = "returned"

(***************************************************************************)
(* Properties of extractKeywords (SpecKeywords).                           *)
(***************************************************************************)
\* the tokens of the normalized text of the call
normalizedTokens == split(preprocessText(arg))

\* the number of times the word occurs in the normalized text
frequency(w) ==
  Cardinality({m \in 1..Len(normalizedTokens) : normalizedTokens[m] = w})

\* the limit N of the call: the default 10, or the number given
keywordLimit == IF arg2.type = "undefined" THEN 10 ELSE arg2.num

matchCounts ==
  LET clean == preprocessText(arg)
  IN  [j \in 1..Len(emotions) |->
         Cardinality({keyword \in emotions[j].keywords : includes(clean, keyword)})]

\* the categories with the highest of the counts c
topCategories(c) ==
  {j \in 1..Len(c) : \A k \in 1..Len(c) : c[k] <= c[j]}

EmotionReturned == fn = "getEmotionAnalysis" /\ outcome = "returned"

\* C17 as stated: the dominant emotion is the single category with the
\* strictly highest match count, and "neutral" when all counts are zero or
\* when two or more categories tie for the highest count.
C17_NeutralOnTie ==
  EmotionReturned =>
    LET c == matchCounts
        top == topCategories(c)
    IN  result.dominant_emotion =
          IF Cardinality(top) = 1 /\ \E j \in top : c[j] > 0
          THEN emotions[CHOOSE j \in top : TRUE].emotion
          ELSE "neutral"

\* C17 amended: the dominant emotion is the category with the highest match
\* count, on a tie the first of the tied categories in the order joy, anger,
\* fear, sadness, surprise, trust; it is "neutral" only when all counts are
\* zero.
C17_FirstHighestOrNeutral ==
  EmotionReturned =>
    LET c == matchCounts
        top == topCategories(c)
        first == CHOOSE j \in top : \A k \in top : j <= k
    IN  /\ result.dominant_emotion =
             IF c[first] > 0 THEN emotions[first].emotion ELSE "neutral"
        /\ \A j \in 1..Len(emotions) : result.emotion_scores[j].count = c[j]

\* anger and sadness tie for the highest count and anger is reported
C17_Witness ==
  /\ EmotionReturned
  /\ result.dominant_emotion = "anger"
  /\ LET c == matchCounts
     IN  topCategories(c) = {2, 4} /\ c[2] > 0

(***************************************************************************)
(* Properties of the data collection (SpecCollect, SpecLimiter).           *)
(***************************************************************************)
\* the number of records of the table with the given post_id
recordsOf(table, postId) ==
  Cardinality({j \in 1..Len(table) : table[j].post_id = postId})

\* C19: after any sequence of collection cycles over the same source items
\* the database holds at most one post record and at most one sentiment
\* record per collected item (post_id).
C19_OneRecordPerItem ==
  \A s \in Sources : \A j \in 1..Len(feed[s]) :
    /\ recordsOf(posts, postIdOf(s, feed[s][j])) <= 1
    /\ recordsOf(sentimentData, postIdOf(s, feed[s][j])) <= 1

\* the same item has been collected a second time
C19_Recollected ==
  \E j, k \in 1..Len(sentimentData) :
    j # k /\ sentimentData[j].post_id = sentimentData[k].post_id

\* a request of source s is issued in this step
RequestIssued(s) == windowRequests'[s] = windowRequests[s] + 1

\* C20: a request of a source is issued only by a collector whose consume on
\* that source's limiter has just succeeded, a consume succeeds only by
\* taking a point that the limiter's window had left, and so in one window
\* of a limiter at most 60 Reddit, 100 News and 100 YouTube requests are
\* issued.
C20_RequestsWithinLimits ==
  /\ [](/\ windowRequests["reddit"] <= 60
        /\ windowRequests["news"] <= 100
        /\ windowRequests["youtube"] <= 100
        /\ \A s \in Sources : windowRequests[s] = consumed[s])
  /\ [][\A s \in Sources :
          /\ windowRequests'[s] # windowRequests[s] =>
               (RequestIssued(s) \/ windowRequests'[s] = 0)
          /\ RequestIssued(s) =>
               /\ cpc[s] = "consume"
               /\ consumed'[s] = consumed[s] + 1
               /\ consumed'[s] <= (IF s = "reddit" THEN 60 ELSE 100)
          /\ (cpc'[s] = "request" /\ cpc[s] # "request") => RequestIssued(s)]_vars

\* the News limiter has no point left in its window of 100 requests: the
\* collector was refused at its second keyword and has returned
C20_Witness ==
  /\ isRunning
  /\ windowRequests["news"] = 100
  /\ consumed["news"] = 100
  /\ cpc["news"] = "done"
  /\ keyIndex["news"] = 2

(***************************************************************************)
(* Purity of the sentiment service (SpecPure).                             *)
(***************************************************************************)
\* the calls that have returned after initialize(): those the caller has
\* taken and the one that has just returned
ReturnedCalls ==
  {h \in history : h.initialized /\ h.outcome = "returned"}
    \cup (IF fn # "none" /\ outcome = "returned" /\ isInitialized
          THEN {Seen(fn, arg, arg2, TRUE, outcome, result)}
          ELSE {})

\* C18: after initialization no call of analyzeSentiment, analyzeBatch,
\* extractKeywords or getEmotionAnalysis changes the lexicons, isInitialized
\* or batchSize; two calls of the same function with the same text return
\* equal results whatever calls come between them, and analyzeBatch returns
\* for each text what analyzeSentiment returns for it, in every order in
\* which the calls of a batch complete.
C18_PureAndDeterministic ==
  /\ [][isInitialized =>
          (isInitialized' /\ lexicon' = lexicon /\ batchSize' = batchSize)]_vars
  /\ [](\A a, b \in ReturnedCalls :
          /\ (a.fn = b.fn /\ a.arg = b.arg /\ a.arg2 = b.arg2) => a.result = b.result
          /\ (a.fn = "analyzeBatch" /\ a.arg.type = "array"
              /\ b.fn = "analyzeSentiment") =>
               \A j \in 1..Len(a.arg.items) :
                 a.arg.items[j] = b.arg => a.result[j] = b.result)

\* analyzeSentiment has returned for a text a second time, after a call of
\* analyzeBatch on an array that holds the text
C18_Witness ==
  /\ fn = "analyzeSentiment"
  /\ outcome = "returned"
  /\ isInitialized
  /\ result.keywords # <<>>
  /\ \E h \in history : h.initialized /\ h.fn = "analyzeSentiment" /\ h.arg = arg
  /\ \E h \in history :
       /\ h.initialized
       /\ h.fn = "analyzeBatch"
       /\ h.arg.type = "array"
       /\ \E j \in 1..Len(h.arg.items) : h.arg.items[j] = arg

(***************************************************************************)
(* Properties of DatabaseService (SpecDatabase).                           *)
(***************************************************************************)
\* initialize() has failed and called initializeInMemoryStorage()
FellBack == inMemoryData.defined

\* C21: if initialize fails (the connection test or table creation throws)
\* the service falls back to in-memory storage: isInitialized becomes true
\* and every later savePost, saveSentimentData and getRecentSentimentData
\* operates on the in-memory lists and succeeds without touching the failed
\* connection pool.
C21_FallbackInMemory ==
  FellBack =>
    /\ dbIsInitialized
    /\ dbCall.op \in {"savePost", "saveSentimentData", "getRecentSentimentData"} =>
         /\ dbCall.outcome = "returned"
         /\ ~dbCall.usedPool
    /\ posts = <<>>
    /\ sentimentData = <<>>

(***************************************************************************)
(* Properties of OpenAIService (SpecOpenAI).                               *)
(***************************************************************************)
\* C22: every generate method always resolves and never rejects: when the
\* service is not initialized it returns the mock response of the method
\* without calling the client, and when the client call, the prompt building
\* or the JSON parsing fails it returns the same mock response.
C22_GenerateNeverRejects ==
  /\ aiCall.outcome # "threw"
  /\ aiCall.pc = "done" =>
       /\ aiCall.outcome = "returned"
       /\ ~aiIsInitialized =>
            /\ ~aiCall.called
            /\ aiCall.value = mockResponse(aiCall.method)
       /\ aiCall.failure \in {"prompt", "client", "malformed", "parse"} =>
            aiCall.value = mockResponse(aiCall.method)
       /\ aiCall.failure = "none" =>
            /\ aiCall.called
            /\ aiCall.value.kind = "parsed"

\* the client has answered generateROIAnalysis with a text that is no JSON,
\* and the method has returned its mock response
C22_Witness ==
  /\ aiIsInitialized
  /\ aiCall.method = "generateROIAnalysis"
  /\ aiCall.pc = "done"
  /\ aiCall.called
  /\ aiCall.failure = "parse"
  /\ aiCall.outcome = "returned"
  /\ aiCall.value = mockResponse("generateROIAnalysis")

(***************************************************************************)
(* Properties of the collection cycle (SpecCollect, SpecCycle).            *)
(***************************************************************************)
\* in this step an API request or a save of the collector of s fails
FailureIn(s) ==
  /\ faults' = faults + 1
  /\ cpc[s] \in {"request", "savePost", "saveSentimentData"}
  /\ cpc'[s] # cpc[s]

\* C23: a failure in one place does not abort collection elsewhere: no
\* collector rejects, an API or save error while processing one subreddit or
\* keyword leaves the collector going on with the next subreddit or keyword
\* of its source (returning its count after the last), the other collectors
\* and the cycle are not touched by it, and the cycle completes once the
\* three collectors have returned, whichever of them have failed.
C23_FailureIsolated ==
  /\ [](\A s \in Sources :
          cpc[s] \in {"idle", "consume", "request", "savePost", "saveSentimentData", "done"})
  /\ [][\A s \in Sources :
          FailureIn(s) =>
            /\ IF keyIndex[s] < Len(keysOf(s))
               THEN cpc'[s] = "consume" /\ keyIndex'[s] = keyIndex[s] + 1
               ELSE cpc'[s] = "done"
            /\ totalCollected'[s] = totalCollected[s]
            /\ \A t \in Sources \ {s} :
                 /\ cpc'[t] = cpc[t]
                 /\ keyIndex'[t] = keyIndex[t]
                 /\ pending'[t] = pending[t]
                 /\ totalCollected'[t] = totalCollected[t]
            /\ isRunning' = isRunning]_vars
  /\ [][(isRunning /\ ~isRunning') => \A s \in Sources : cpc[s] = "done"]_vars

\* the News collector has failed on its first keyword, whose articles
\* mention a brand, and is saving an article of its second keyword
C23_Witness ==
  /\ credentials = {"news"}
  /\ faults = 1
  /\ keyIndex["news"] = 2
  /\ cpc["news"] = "saveSentimentData"
  /\ totalCollected["news"] = 0
  /\ sentimentData = <<>>

\* a call of collectAllData, from the cron schedule or the route, is
\* answered in this step
Triggered == lastCall' # lastCall

\* C24: at most one collection cycle runs at a time: a call of
\* collectAllData made while isRunning is true, from the cron schedule or
\* from POST /api/collect-data in any interleaving, returns without invoking
\* a collector, so that the collectors of two cycles never run concurrently.
C24_OneCycleAtATime ==
  /\ [](/\ cycles <= 1
        /\ isRunning <=> cycles = 1
        /\ ~isRunning => \A s \in Sources : cpc[s] = "idle")
  /\ [][(isRunning /\ Triggered) =>
          /\ lastCall' \in {"skipped", "already running"}
          /\ UNCHANGED <<cpc, keyIndex, pending, totalCollected, consumed,
                         windowRequests, cycles, isRunning, runLog>>]_vars
  /\ [][cycles' > cycles => (~isRunning /\ cycles = 0)]_vars

\* the cron callback has called collectAllData while the Reddit collector of
\* the running cycle awaits its request: the call was skipped
C24_Witness ==
  /\ isRunning
  /\ cycles = 1
  /\ lastCall = "skipped"
  /\ cpc["reddit"] = "request"
  /\ cpc["youtube"] = "consume"

\* C25: every collection cycle that sets isRunning to true eventually sets
\* it back to false, whether the collectors fulfil or fail, provided each
\* awaited promise settles; a call skipped while a cycle is running never
\* clears the flag of the running cycle.
C25_FlagEventuallyCleared ==
  /\ isRunning ~> ~isRunning
  /\ [][(isRunning /\ lastCall' \in {"skipped", "already running"} /\ Triggered)
          => isRunning']_vars
  /\ [][(isRunning /\ ~isRunning') => \A s \in Sources : cpc[s] = "done"]_vars

\* a cycle in which two calls have failed has ended and cleared the flag
C25_Witness ==
  /\ ~isRunning
  /\ lastCall = "started"
  /\ cycles = 0
  /\ faults = 2
  /\ \A s \in Sources : cpc[s] = "idle"

\* the collector of s is at its call of database.saveSentimentData
SavingSentiment(s) == cpc[s] = "saveSentimentData"

\* this step adds a row to sentiment_data for the collector of s
SentimentSaved(s) ==
  /\ Len(sentimentData') = Len(sentimentData) + 1
  /\ sentimentData'[Len(sentimentData')].post_id[1] = s

\* C26: in each collector run, every saveSentimentData call is for an item
\* that mentions at least one target brand and whose savePost has succeeded
\* before in the same run, and the count the collector returns is the number
\* of its saveSentimentData calls that succeeded: the count starts at 0 with
\* the run and moves only by one, in the step that stores a row for the source.
C26_SentimentAfterPost ==
  /\ [](\A s \in Sources :
          /\ SavingSentiment(s) =>
               /\ pending[s] # <<>>
               /\ mentionedBrands(pending[s][1].content) # <<>>
               /\ postIdOf(s, pending[s][1]) \in runLog[s].saved
          /\ totalCollected[s] = runLog[s].sentiments)
  /\ [][\A s \in Sources :
          /\ SentimentSaved(s) =>
               /\ SavingSentiment(s)
               /\ sentimentData'[Len(sentimentData')].post_id = postIdOf(s, pending[s][1])
               /\ totalCollected'[s] = totalCollected[s] + 1
          /\ totalCollected'[s] # totalCollected[s] =>
               \/ SentimentSaved(s)
               \/ ~isRunning /\ isRunning' /\ totalCollected'[s] = 0]_vars

\* a collector has returned a count of 1 after two of its savePost calls
\* succeeded: the saveSentimentData call for one of the two items failed
C26_Witness ==
  \E s \in Sources :
    /\ cpc[s] = "done"
    /\ totalCollected[s] = 1
    /\ Cardinality(runLog[s].saved) = 2
    /\ Len(sentimentData) = 1
    /\ faults > 0

\* C27: cache round trip with either backend: a get(key) that is answered
\* by the backend, made after a set(key, v, ttl) returned true and before the
\* entry expires or is deleted, returns v, for every JSON value v, 0, false
\* and the empty string included.
C27_CacheRoundTrip ==
  \A key \in CacheKeys :
    (cacheCall.op = "get" /\ cacheCall.key = key /\ cacheCall.ok /\ written[key].set)
      => cacheCall.value = written[key].value

\* C28: getOrSet invokes fetchFunction at most once per call and only when
\* the key has no cached value, and when fetchFunction throws it resolves to
\* null without calling it again.
C28_FetchAtMostOnce ==
  /\ gos.fetches <= 1
  /\ gos.fetches >= 1 => ~gos.cached
  /\ (gos.threw /\ gos.pc = "done") => (gos.value = Null /\ gos.fetches = 1)

\* the step in which the answer of GET /api/health is made
HealthAnswered == health.pc = "cache" /\ health'.pc = "done"

\* C29: GET /api/health reports "healthy" exactly when the database is
\* healthy, the cache is healthy and a collection cycle is in progress at the
\* moment of the answer (isRunning true), and "degraded" otherwise, so also
\* with a healthy database and cache while no cycle runs.
C29_HealthyIffCycleRuns ==
  /\ [](health.pc = "done" =>
          /\ health.status \in {"healthy", "degraded"}
          /\ health.status = "healthy" <=>
               (health.database /\ health.cache /\ health.dataCollection))
  /\ [][HealthAnswered =>
          /\ health'.dataCollection = isRunning
          /\ health'.database = health.database
          /\ health'.status = "healthy" <=> (health.database /\ health'.cache /\ isRunning)
          /\ (health.database /\ health'.cache /\ ~isRunning) => health'.status = "degraded"]_vars
  /\ [][(health.pc = "database" /\ health'.pc = "cache" /\ health'.database) =>
          dbIsInitialized]_vars

\* a health request was answered "degraded" with a healthy database and a
\* healthy cache, no cycle being in progress, after a cycle had stored a row
C29_Witness ==
  /\ health.pc = "done"
  /\ health.database
  /\ health.cache
  /\ ~health.dataCollection
  /\ health.status = "degraded"
  /\ ~isRunning
  /\ sentimentData # <<>>

====
